---- MODULE Spec2Model ----
(***************************************************************************)
(* Transactional coordination core of the wallet / inventory / order       *)
(* services: the idempotency middleware, the atomic views of the           *)
(* inventory reservation engine and the order/payment coordinator.         *)
(*                                                                         *)
(* Time is counted in ticks of 30 minutes: the cache TTL of 3600 s is 2    *)
(* ticks and the reservation window of 30 minutes is 1 tick.               *)
(* Money is counted in whole currency units.                               *)
(***************************************************************************)
EXTENDS Integers, Sequences, FiniteSets, Bags, TLC

(***************************************************************************)
(* Bounds of the model.                                                    *)
(***************************************************************************)
MaxRequests == 3          \* wallet requests submitted in one behaviour
MaxTime == 2              \* last tick of the clock
MaxReservations == 2      \* StockReservation rows created in one behaviour
MaxAdds == 1              \* add_stock requests that pass validation in one behaviour
MaxOrders == 2            \* Order rows created in one behaviour
MaxSeqOrders == 1         \* Order rows created in one sequential behaviour
MaxLiveTopups == 1        \* top-up requests in one behaviour of the liveness specification
MaxHistory == 4           \* history rows of an order after which no operator update starts

(***************************************************************************)
(* Program constants.                                                      *)
(***************************************************************************)
TTL == 2                  \* cache.set(cache_key, response_data, 3600)
ReservationWindow == 1    \* timezone.now() + timedelta(minutes=30)
UnitPrice == 10           \* unit_price = Decimal('10.00')

Procs == {"p1", "p2"}     \* request handler threads
Users == {1, 2, 3}        \* primary keys of the user table
Staff == {3}              \* users with is_staff
Callers == {1, 2}         \* the users that submit top-ups
Keys == {"", "k1", "k2"}  \* idempotency keys a client may send ("" = none)
Amounts == {0, 10}        \* the 'amount' form field of a top-up
TopupPath == "/wallet/submit/"
Products == {"A", "B"}    \* the Product rows
ProductIds == Products \cup {"X"}   \* product ids a client may send ("X": no row)
OrderIds == {"", "o1", "o2"}        \* order ids a client may send ("" = none)
Quantities == {0, 1, 2}   \* the 'quantity' field of a stock request
InitStock == [pr \in Products |-> IF pr = "A" THEN 2 ELSE 1]
InitBalance == [u \in Users |-> IF u = 1 THEN 20 ELSE IF u = 2 THEN 10 ELSE 0]
ItemLists == {<<>>, <<1>>, <<2>>, <<1, 0>>, <<0, 1>>}   \* the quantities of the 'items' of an order
Addresses == {"", "addr"}                    \* the 'shipping_address' of an order
Methods == {"GET", "POST"}                   \* the request methods a client may use
StatusInputs == {"", "PENDING", "CONFIRMED", "SHIPPED", "CANCELLED", "BOGUS"}

VARIABLES
    balance,      \* User.balance, by user id
    topups,       \* TopUp rows, in creation order
    topupLogs,    \* TopUpLog rows, in creation order
    cache,        \* django cache: cache key -> [data, expires]
    now,          \* the clock
    wreq,         \* per thread: the wallet request it is serving
    wlog,         \* history: the wallet requests that have been answered
    stock,        \* Product.stock_quantity, by product
    reservations, \* StockReservation rows
    movements,    \* StockMovement rows (a bag)
    nextRid,      \* number of StockReservation rows created so far
    ireq,         \* per thread: the inventory request it is serving
    ilast,        \* the last inventory request answered, with its answer
    orders,       \* Order rows, by id: [customer, status, total_amount]
    orderItems,   \* OrderItem rows of each order
    payments,     \* PaymentRecord rows (a bag)
    history,      \* OrderStatusHistory rows of each order, in creation order
    rowlock,      \* per user row: the thread holding its select_for_update lock
    oreq,         \* per thread: the order request it is serving
    olast         \* the last order request answered, with its answer

walletVars == <<topups, topupLogs, cache, wreq, wlog>>
invVars == <<stock, reservations, movements, nextRid, ireq, ilast>>
orderVars == <<orders, orderItems, payments, history, rowlock, oreq, olast>>

(***************************************************************************)
(* Python values and their JSON encoding.  A dict is a sequence of named   *)
(* fields; DjangoJSONEncoder writes an int as a number and a Decimal or a  *)
(* str as a string, json.loads reads a number as an int and a string as a  *)
(* str.                                                                    *)
(***************************************************************************)
PyInt(name, n) == [name |-> name, t |-> "int", n |-> n, s |-> ""]
PyDecimal(name, n) == [name |-> name, t |-> "Decimal", n |-> n, s |-> ""]
PyStr(name, s) == [name |-> name, t |-> "str", n |-> 0, s |-> s]

JsonEncodeField(f) ==
    CASE f.t = "int" -> [name |-> f.name, j |-> "number", n |-> f.n, s |-> ""]
      [] f.t = "Decimal" -> [name |-> f.name, j |-> "string", n |-> 0, s |-> ToString(f.n)]
      [] OTHER -> [name |-> f.name, j |-> "string", n |-> 0, s |-> f.s]

JsonEncode(data) == [i \in DOMAIN data |-> JsonEncodeField(data[i])]

JsonDecodeField(f) ==
    IF f.j = "number" THEN PyInt(f.name, f.n) ELSE PyStr(f.name, f.s)

JsonDecode(body) == [i \in DOMAIN body |-> JsonDecodeField(body[i])]

JsonResponse(data, status) == [status |-> status, body |-> JsonEncode(data)]

(***************************************************************************)
(* The cache (django.core.cache): an entry is readable until it expires.   *)
(***************************************************************************)
CacheKey(method, path, key) == <<"idmp", method, path, key>>

CacheHasForever(c, k, t) == k \in DOMAIN c

CacheHas(c, k, t) == k \in DOMAIN c /\ t < c[k].expires

CacheSetNoStore(c, k, data, t) == c

CacheSet(c, k, data, t) ==
    [x \in DOMAIN c \cup {k} |->
        IF x = k THEN [data |-> data, expires |-> t + TTL] ELSE c[x]]

(***************************************************************************)
(* wallet.views.topup_submit, run inside its transaction.                  *)
(***************************************************************************)
FirstUser == CHOOSE u \in Users : \A v \in Users : u <= v

IdleReq == [pc |-> "idle", caller |-> 0, key |-> "", amount |-> 0,
            status |-> 0, body |-> <<>>, executed |-> FALSE, tstart |-> 0,
            rows |-> 0, logs |-> 0, delta |-> 0, seen |-> 0]

InFlight == {p \in Procs : wreq[p].pc # "idle"}

LogEntry(r, t) ==
    [ckey |-> CacheKey("POST", TopupPath, r.key), caller |-> r.caller,
     status |-> r.status, body |-> r.body,
     executed |-> r.executed, tstart |-> r.tstart, tdone |-> t,
     rows |-> r.rows, logs |-> r.logs, delta |-> r.delta]

\* IdempotencyMiddleware.process_request for a POST to the top-up path.
WSubmit(p, caller, key, amount) ==
    /\ wreq[p].pc = "idle"
    /\ Len(wlog) + Cardinality(InFlight) < MaxRequests
    /\ LET ck == CacheKey("POST", TopupPath, key)
           r0 == [IdleReq EXCEPT !.caller = caller, !.key = key,
                                 !.amount = amount, !.tstart = now]
       IN IF key = ""
          THEN LET resp == JsonResponse(<<PyStr("error", "Idempotency-Key required")>>, 400)
                   r == [r0 EXCEPT !.status = resp.status, !.body = resp.body]
               IN /\ wlog' = Append(wlog, LogEntry(r, now))
                  /\ wreq' = wreq
          ELSE IF CacheHas(cache, ck, now) /\ cache[ck].data # <<>>
          THEN LET resp == JsonResponse(cache[ck].data, 200)
                   r == [r0 EXCEPT !.status = resp.status, !.body = resp.body]
               IN /\ wlog' = Append(wlog, LogEntry(r, now))
                  /\ wreq' = wreq
          ELSE /\ wreq' = [wreq EXCEPT ![p] = [r0 EXCEPT !.pc = "view"]]
               /\ wlog' = wlog
    /\ UNCHANGED <<balance, topups, topupLogs, cache, now>>
    /\ UNCHANGED <<invVars, orderVars>>

\* topup_submit: the view, committed as one transaction.
TopupSubmit(p) ==
    /\ wreq[p].pc = "view"
    /\ LET r == wreq[p]
           amount == r.amount
           user == FirstUser
       IN IF amount <= 0
          THEN LET resp == JsonResponse(<<PyStr("error", "invalid amount")>>, 400)
               IN /\ wreq' = [wreq EXCEPT ![p] = [r EXCEPT !.pc = "respond",
                                 !.status = resp.status, !.body = resp.body]]
                  /\ UNCHANGED <<balance, topups, topupLogs>>
          ELSE LET newBalance == balance[user] + amount
                   resp == JsonResponse(<<PyStr("detail", "topup ok"),
                                          PyInt("amount", amount),
                                          PyDecimal("new_balance", newBalance)>>, 200)
               IN /\ topups' = Append(topups, [user |-> user, amount |-> amount])
                  /\ topupLogs' = Append(topupLogs, [topup |-> Len(topups) + 1])
                  /\ balance' = [balance EXCEPT ![user] = newBalance]
                  /\ wreq' = [wreq EXCEPT ![p] = [r EXCEPT !.pc = "respond",
                                 !.status = resp.status, !.body = resp.body,
                                 !.executed = TRUE,
                                 !.rows = Len(topups') - Len(topups),
                                 !.logs = Len(topupLogs') - Len(topupLogs),
                                 !.delta = balance'[user] - balance[user]]]
    /\ UNCHANGED <<cache, now, wlog>>
    /\ UNCHANGED <<invVars, orderVars>>

CacheableAny(status) == TRUE

\* process_response stores the answer when response.status_code == 200.
Cacheable(status) == status = 200

\* IdempotencyMiddleware.process_response.
ProcessResponse(p) ==
    /\ wreq[p].pc = "respond"
    /\ LET r == wreq[p]
           ck == CacheKey("POST", TopupPath, r.key)
       IN /\ cache' = IF Cacheable(r.status)
                      THEN CacheSet(cache, ck, JsonDecode(r.body), now)
                      ELSE cache
          /\ wlog' = Append(wlog, LogEntry(r, now))
          /\ wreq' = [wreq EXCEPT ![p] = IdleReq]
    /\ UNCHANGED <<balance, topups, topupLogs, now>>
    /\ UNCHANGED <<invVars, orderVars>>

Tick ==
    /\ now < MaxTime
    /\ now' = now + 1
    /\ UNCHANGED <<balance, walletVars, invVars, orderVars>>

(***************************************************************************)
(* Inventory service: stock, reservations and the movement ledger.         *)
(*                                                                         *)
(* A view reads rows as they are committed at the time of the read and     *)
(* its writes are committed together when the view returns; F()            *)
(* expressions are evaluated by the database at the time of the write.     *)
(* A failed ORM write marks the transaction for rollback, so the view's    *)
(* "except Exception" answers 500 and nothing is committed; a failure of   *)
(* the trailing refresh_from_db() is answered 500 too, but the writes of   *)
(* the view are committed.                                                 *)
(***************************************************************************)
IdleInv == [pc |-> "idle", method |-> "", key |-> "", op |-> "",
            product |-> "", quantity |-> 0, order |-> "", user |-> 0,
            rid |-> 0, rprod |-> "", rqty |-> 0, snap |-> {}]

\* The answer of a view: the status code, the 'error' field and, for the
\* sweep, the 'count' field.
Answer(op, status, error, count) ==
    [pc |-> "done", op |-> op, status |-> status, error |-> error, count |-> count]

InvInFlight == {p \in Procs : ireq[p].pc # "idle"}

\* The thread goes on with r, or has answered: the answer is kept in ilast.
InvNext(p, r) ==
    /\ ireq' = [ireq EXCEPT ![p] = IF r.pc = "done" THEN IdleInv ELSE r]
    /\ ilast' = IF r.pc = "done" THEN r ELSE ilast

InvDone(r, status, error) == Answer(r.op, status, error, 0)

\* Product.stock_quantity is a PositiveIntegerField: the database rejects a
\* write that would make it negative.
StockCheckNone(n) == TRUE

StockCheckOk(n) == n >= 0

\* if product.stock_quantity < quantity: 'Insufficient stock'
StockBelowNever(available, q) == FALSE

StockBelow(available, q) == available < q

\* if timezone.now() > reservation.expires_at: 'Reservation has expired'
ExpiredNever(t, res) == FALSE

Expired(t, res) == t > res.expires_at

DecrementStockNone(s, prod, q) == s

\* .update(stock_quantity=F('stock_quantity') - quantity)
DecrementStock(s, prod, q) == [s EXCEPT ![prod] = @ - q]

\* .update(stock_quantity=F('stock_quantity') + quantity)
IncrementStockLost(s, prod, q) == s

IncrementStock(s, prod, q) == [s EXCEPT ![prod] = @ + q]

MovementNoQuantity(prod, type, q, ref, rid) ==
    [product |-> prod, movement_type |-> type, quantity |-> 0,
     reference_id |-> ref, rid |-> rid]

\* StockMovement.objects.create(...); rid is the reservation the movement is
\* about (0 for add_stock), kept for the analysis only.
Movement(prod, type, q, ref, rid) ==
    [product |-> prod, movement_type |-> type, quantity |-> q,
     reference_id |-> ref, rid |-> rid]

\* The ledger is append-only; it is kept as the bag of its rows.
AddMovement(m, row) == m (+) SetToBag({row})

RECURSIVE CountRows(_, _)
CountRows(rows, m) ==
    IF rows = {} THEN 0
    ELSE LET x == CHOOSE y \in rows : TRUE
         IN CopiesIn(x, m) + CountRows(rows \ {x}, m)

\* Number of ledger rows of a movement type.
MovementCount(m, type) ==
    CountRows({x \in BagToSet(m) : x.movement_type = type}, m)

\* StockReservation rows of an order id (order_id is unique).
ResFor(order) == {res \in reservations : res.order_id = order}

\* The outcomes of the writes of a view: all succeed, an ORM write fails,
\* or the trailing read fails.
Faults == {"none", "write_error", "read_error"}

IsStaffAnyone(u) == TRUE

\* request.user.is_authenticated and request.user.is_staff
IsStaff(u) == u \in Staff

\* Entry of every inventory view: the method check of the POST views, then
\* the JSON body is parsed and validated.  cleanup_expired_reservations
\* has no method check.
IEnter(p, method, key, op, prod, q, order, user) ==
    /\ ireq[p].pc = "idle"
    /\ op = "reserve" =>
          nextRid + Cardinality({x \in Procs : ireq[x].op = "reserve"}) < MaxReservations
    /\ op = "add" =>
          MovementCount(movements, "IN")
            + Cardinality({x \in Procs : ireq[x].op = "add"}) < MaxAdds
    /\ LET r == [IdleInv EXCEPT !.method = method, !.key = key, !.op = op,
                                !.product = prod, !.quantity = q,
                                !.order = order, !.user = user]
       IN InvNext(p,
            CASE method # "POST" /\ op # "sweep" ->
                    InvDone(r, 405, "Method not allowed")
              [] op = "add" ->
                    IF q <= 0 THEN InvDone(r, 400, "Quantity must be positive")
                    ELSE [r EXCEPT !.pc = "add_read"]
              [] op = "reserve" ->
                    IF order = "" THEN InvDone(r, 400, "Order ID is required")
                    ELSE IF q <= 0 THEN InvDone(r, 400, "Quantity must be positive")
                    ELSE [r EXCEPT !.pc = "reserve_read"]
              [] op = "confirm" ->
                    IF order = "" THEN InvDone(r, 400, "Order ID is required")
                    ELSE [r EXCEPT !.pc = "confirm_read"]
              [] op = "release" ->
                    IF order = "" THEN InvDone(r, 400, "Order ID is required")
                    ELSE [r EXCEPT !.pc = "release_read"]
              [] OTHER ->
                    IF ~IsStaff(user) THEN InvDone(r, 403, "Admin access required")
                    ELSE [r EXCEPT !.pc = "sweep_read"])
    /\ UNCHANGED <<stock, reservations, movements, nextRid>>
    /\ UNCHANGED <<balance, now, walletVars, orderVars>>

\* A POST whose idempotency key has not been used before: the middleware
\* finds nothing in the cache and the view is entered.
IStart(p, op, prod, q, order, user) ==
    IEnter(p, "POST", "k1", op, prod, q, order, user)

\* IdempotencyMiddleware.process_request: a request that is not a POST is
\* passed on to the view; a POST without a key is answered 400.
MiddlewareRejects(method, key) == method = "POST" /\ key = ""

\* A request to an inventory view without an idempotency key.
KeylessInv(p, method, op, prod, q, order, user) ==
    IF MiddlewareRejects(method, "")
    THEN /\ ireq[p].pc = "idle"
         /\ ilast' = Answer(op, 400, "Idempotency-Key required", 0)
         /\ UNCHANGED <<stock, reservations, movements, nextRid, ireq>>
         /\ UNCHANGED <<balance, now, walletVars, orderVars>>
    ELSE IEnter(p, method, "", op, prod, q, order, user)

\* add_stock: get_object_or_404(Product, id=product_id)
AddRead(p) ==
    /\ ireq[p].pc = "add_read"
    /\ LET r == ireq[p]
       IN InvNext(p,
            IF r.product \notin Products THEN InvDone(r, 500, "No Product matches the given query.")
            ELSE [r EXCEPT !.pc = "add_write"])
    /\ UNCHANGED <<stock, reservations, movements, nextRid>>
    /\ UNCHANGED <<balance, now, walletVars, orderVars>>

\* add_stock: the update, the IN movement, refresh_from_db and the commit.
AddWrite(p, fault) ==
    /\ ireq[p].pc = "add_write"
    /\ LET r == ireq[p]
       IN IF fault = "write_error"
          THEN /\ InvNext(p, InvDone(r, 500, "database error"))
               /\ UNCHANGED <<stock, movements>>
          ELSE /\ stock' = IncrementStock(stock, r.product, r.quantity)
               /\ movements' = AddMovement(movements, Movement(r.product, "IN", r.quantity, "", 0))
               /\ InvNext(p,
                      IF fault = "read_error" THEN InvDone(r, 500, "database error")
                      ELSE InvDone(r, 200, ""))
    /\ UNCHANGED <<reservations, nextRid>>
    /\ UNCHANGED <<balance, now, walletVars, orderVars>>

\* reserve_stock: get_object_or_404(Product) and the stock check.
ReserveRead(p) ==
    /\ ireq[p].pc = "reserve_read"
    /\ LET r == ireq[p]
       IN InvNext(p,
            IF r.product \notin Products THEN InvDone(r, 500, "No Product matches the given query.")
            ELSE IF StockBelow(stock[r.product], r.quantity)
                 THEN InvDone(r, 400, "Insufficient stock")
            ELSE [r EXCEPT !.pc = "reserve_exists"])
    /\ UNCHANGED <<stock, reservations, movements, nextRid>>
    /\ UNCHANGED <<balance, now, walletVars, orderVars>>

\* reserve_stock: StockReservation.objects.filter(order_id=order_id).exists()
ReserveExists(p) ==
    /\ ireq[p].pc = "reserve_exists"
    /\ LET r == ireq[p]
       IN InvNext(p,
            IF ResFor(r.order) # {} THEN InvDone(r, 400, "Order already has stock reservation")
            ELSE [r EXCEPT !.pc = "reserve_write"])
    /\ UNCHANGED <<stock, reservations, movements, nextRid>>
    /\ UNCHANGED <<balance, now, walletVars, orderVars>>

\* reserve_stock: the reservation row, the stock update, the RESERVED
\* movement, refresh_from_db and the commit.  The unique order_id and the
\* non-negative stock_quantity are enforced by the database.
ReserveWrite(p, fault) ==
    /\ ireq[p].pc = "reserve_write"
    /\ LET r == ireq[p]
           rid == nextRid + 1
           newStock == DecrementStock(stock, r.product, r.quantity)
       IN IF \/ fault = "write_error"
             \/ ResFor(r.order) # {}
             \/ ~StockCheckOk(newStock[r.product])
          THEN /\ InvNext(p, InvDone(r, 500, "database error"))
               /\ UNCHANGED <<stock, reservations, movements, nextRid>>
          ELSE /\ reservations' = reservations \cup
                      {[id |-> rid, product |-> r.product, quantity |-> r.quantity,
                        order_id |-> r.order, expires_at |-> now + ReservationWindow]}
               /\ nextRid' = rid
               /\ stock' = newStock
               /\ movements' = AddMovement(movements, Movement(r.product, "RESERVED", r.quantity, r.order, rid))
               /\ InvNext(p,
                      IF fault = "read_error" THEN InvDone(r, 500, "database error")
                      ELSE InvDone(r, 200, ""))
    /\ UNCHANGED <<balance, now, walletVars, orderVars>>

\* confirm_reservation: get_object_or_404(StockReservation) and the expiry check.
ConfirmRead(p) ==
    /\ ireq[p].pc = "confirm_read"
    /\ LET r == ireq[p]
       IN InvNext(p,
            IF ResFor(r.order) = {}
            THEN InvDone(r, 500, "No StockReservation matches the given query.")
            ELSE LET res == CHOOSE x \in ResFor(r.order) : TRUE
                 IN IF Expired(now, res)
                    THEN InvDone(r, 400, "Reservation has expired")
                    ELSE [r EXCEPT !.pc = "confirm_write", !.rid = res.id,
                              !.rprod = res.product, !.rqty = res.quantity])
    /\ UNCHANGED <<stock, reservations, movements, nextRid>>
    /\ UNCHANGED <<balance, now, walletVars, orderVars>>

\* confirm_reservation: the OUT movement, reservation.delete() and the commit.
\* Deleting a row that is already gone deletes nothing and raises nothing.
ConfirmWrite(p, fault) ==
    /\ ireq[p].pc = "confirm_write"
    /\ fault # "read_error"
    /\ LET r == ireq[p]
       IN IF fault = "write_error"
          THEN /\ InvNext(p, InvDone(r, 500, "database error"))
               /\ UNCHANGED <<reservations, movements>>
          ELSE /\ movements' = AddMovement(movements, Movement(r.rprod, "OUT", r.rqty, r.order, r.rid))
               /\ reservations' = {res \in reservations : res.id # r.rid}
               /\ InvNext(p, InvDone(r, 200, ""))
    /\ UNCHANGED <<stock, nextRid>>
    /\ UNCHANGED <<balance, now, walletVars, orderVars>>

\* release_reservation: get_object_or_404(StockReservation)
ReleaseRead(p) ==
    /\ ireq[p].pc = "release_read"
    /\ LET r == ireq[p]
       IN InvNext(p,
            IF ResFor(r.order) = {}
            THEN InvDone(r, 500, "No StockReservation matches the given query.")
            ELSE LET res == CHOOSE x \in ResFor(r.order) : TRUE
                 IN [r EXCEPT !.pc = "release_write", !.rid = res.id,
                              !.rprod = res.product, !.rqty = res.quantity])
    /\ UNCHANGED <<stock, reservations, movements, nextRid>>
    /\ UNCHANGED <<balance, now, walletVars, orderVars>>

\* release_reservation: the stock update, the RELEASED movement,
\* reservation.delete() and the commit.
ReleaseWrite(p, fault) ==
    /\ ireq[p].pc = "release_write"
    /\ fault # "read_error"
    /\ LET r == ireq[p]
       IN IF fault = "write_error"
          THEN /\ InvNext(p, InvDone(r, 500, "database error"))
               /\ UNCHANGED <<stock, reservations, movements>>
          ELSE /\ stock' = IncrementStock(stock, r.rprod, r.rqty)
               /\ movements' = AddMovement(movements, Movement(r.rprod, "RELEASED", r.rqty, r.order, r.rid))
               /\ reservations' = {res \in reservations : res.id # r.rid}
               /\ InvNext(p, InvDone(r, 200, ""))
    /\ UNCHANGED <<nextRid>>
    /\ UNCHANGED <<balance, now, walletVars, orderVars>>

\* cleanup_expired_reservations: the queryset filter(expires_at__lt=now) is
\* evaluated when the loop starts.
SweepRead(p) ==
    /\ ireq[p].pc = "sweep_read"
    /\ InvNext(p, [ireq[p] EXCEPT !.pc = "sweep_write",
                   !.snap = {res \in reservations : res.expires_at < now}])
    /\ UNCHANGED <<stock, reservations, movements, nextRid>>
    /\ UNCHANGED <<balance, now, walletVars, orderVars>>

\* The loop of cleanup_expired_reservations over the rows it has read, in
\* the order of their ids.
SweepStockNone(s, rows) == s

RECURSIVE SweepStock(_, _)
SweepStock(s, rows) ==
    IF rows = {} THEN s
    ELSE LET res == CHOOSE x \in rows : \A y \in rows : x.id <= y.id
         IN SweepStock(IncrementStock(s, res.product, res.quantity), rows \ {res})

RECURSIVE SweepMovements(_, _)
SweepMovements(m, rows) ==
    IF rows = {} THEN m
    ELSE LET res == CHOOSE x \in rows : \A y \in rows : x.id <= y.id
         IN SweepMovements(
                AddMovement(m, Movement(res.product, "RELEASED", res.quantity,
                                        res.order_id, res.id)),
                rows \ {res})

\* cleanup_expired_reservations: the loop and the commit.  An exception in
\* the loop leaves the view, and the transaction AtomicRequestMiddleware
\* opened around the view is rolled back.
SweepWrite(p, fault) ==
    /\ ireq[p].pc = "sweep_write"
    /\ fault # "read_error"
    /\ LET r == ireq[p]
       IN IF fault = "write_error" /\ r.snap # {}
          THEN /\ InvNext(p, InvDone(r, 500, "database error"))
               /\ UNCHANGED <<stock, reservations, movements>>
          ELSE /\ stock' = SweepStock(stock, r.snap)
               /\ movements' = SweepMovements(movements, r.snap)
               /\ reservations' = {res \in reservations :
                                       res.id \notin {x.id : x \in r.snap}}
               /\ InvNext(p, Answer(r.op, 200, "", Cardinality(r.snap)))
    /\ UNCHANGED <<nextRid>>
    /\ UNCHANGED <<balance, now, walletVars, orderVars>>

InvInit ==
    /\ stock = InitStock
    /\ reservations = {}
    /\ movements = EmptyBag
    /\ nextRid = 0
    /\ ireq = [p \in Procs |-> IdleInv]
    /\ ilast = Answer("", 0, "", 0)

\* The steps of the views after their entry.
AddStep(p) ==
    \/ AddRead(p)
    \/ \E f \in Faults : AddWrite(p, f)

ReservationStep(p) ==
    \/ ReserveRead(p)
    \/ ReserveExists(p)
    \/ ConfirmRead(p)
    \/ ReleaseRead(p)
    \/ SweepRead(p)
    \/ \E f \in Faults : ReserveWrite(p, f)
    \/ \E f \in Faults : ConfirmWrite(p, f)
    \/ \E f \in Faults : ReleaseWrite(p, f)
    \/ \E f \in Faults : SweepWrite(p, f)

(***************************************************************************)
(* Order service: orders, payment records and the status history.          *)
(*                                                                         *)
(* The views run inside transaction.atomic and answer from their own       *)
(* "except Exception" handlers, so the transaction is committed unless an  *)
(* ORM write has failed and marked it for rollback.  The account row read  *)
(* with select_for_update() stays locked until the transaction ends; a     *)
(* write to a locked row waits for the lock.                               *)
(***************************************************************************)
Statuses == {"PENDING", "CONFIRMED", "PROCESSING", "SHIPPED", "DELIVERED",
             "CANCELLED", "REFUNDED"}

IdleOrd == [pc |-> "idle", op |-> "", user |-> 0, order |-> 0, new_status |-> "",
            old_status |-> "", total |-> 0, refund |-> 0, needs_refund |-> FALSE]

OrdInFlight == {p \in Procs : oreq[p].pc # "idle"}

\* The thread goes on with r, or has answered: the answer is kept in olast.
OrdNext(p, r) ==
    /\ oreq' = [oreq EXCEPT ![p] = IF r.pc = "done" THEN IdleOrd ELSE r]
    /\ olast' = IF r.pc = "done" THEN r ELSE olast

OrdDone(r, status, error) == Answer(r.op, status, error, 0)

OrderExists(o) == o \in DOMAIN orders

\* PaymentRecord rows are kept as a bag of [order, payment_type, amount, status].
Payment(o, type, amount, status) ==
    [order |-> o, payment_type |-> type, amount |-> amount, status |-> status]

AddPayment(ps, row) == ps (+) SetToBag({row})

RECURSIVE SumAmount(_, _)
SumAmount(rows, ps) ==
    IF rows = {} THEN 0
    ELSE LET x == CHOOSE y \in rows : TRUE
         IN x.amount * CopiesIn(x, ps) + SumAmount(rows \ {x}, ps)

CompletedSumAnyStatus(ps, o, type) ==
    SumAmount({x \in BagToSet(ps) : x.order = o /\ x.payment_type = type}, ps)

\* order.payments.filter(payment_type=..., status='COMPLETED').aggregate(Sum('amount'))
CompletedSum(ps, o, type) ==
    SumAmount({x \in BagToSet(ps) : x.order = o /\ x.payment_type = type
                                      /\ x.status = "COMPLETED"}, ps)

\* order.status = ...; order.save()
SetStatus(os, o, st) == [os EXCEPT ![o].status = st]

AddHistoryNone(h, o, from, to) == h

\* OrderStatusHistory.objects.create(order=..., from_status=..., to_status=...)
AddHistory(h, o, from, to) ==
    [h EXCEPT ![o] = Append(@, [from_status |-> from, to_status |-> to])]

\* user.balance = F('balance') - amount; user.save(update_fields=['balance'])
Debit(b, u, amount) == [b EXCEPT ![u] = @ - amount]

CreditLost(b, u, amount) == b

\* User.objects.filter(id=...).update(balance=F('balance') + amount)
Credit(b, u, amount) == [b EXCEPT ![u] = @ + amount]

InsufficientBalanceNever(b, total) == FALSE

\* if user.balance < order.total_amount: 'Insufficient balance'
InsufficientBalance(b, total) == b < total

NotCancellableNever(st) == FALSE

\* if order.status in ['DELIVERED', 'CANCELLED', 'REFUNDED']: 'Cannot cancel'
NotCancellable(st) == st \in {"DELIVERED", "CANCELLED", "REFUNDED"}

\* The row lock of select_for_update(): free, or held by this thread.
LockAlwaysFree(p, u) == TRUE

ReleaseLockNever(l, u) == l

\* The end of the transaction frees the row it had locked.
ReleaseLock(l, u) == [l EXCEPT ![u] = "none"]

LockFree(p, u) == rowlock[u] \in {"none", p}

RECURSIVE SumItems(_)
SumItems(qs) == IF qs = <<>> THEN 0 ELSE Head(qs) + SumItems(Tail(qs))

\* create_order: the items the loop has written when it meets the first
\* non-positive quantity (all of them when there is none).
RECURSIVE ItemsBefore(_)
ItemsBefore(qs) ==
    IF qs = <<>> \/ Head(qs) <= 0 THEN <<>>
    ELSE <<Head(qs)>> \o ItemsBefore(Tail(qs))

\* OrderItem.objects.create for each quantity of qs
ItemRows(qs) ==
    [i \in DOMAIN qs |-> [quantity |-> qs[i], subtotal |-> UnitPrice * qs[i]]]

AtomicExitKeeps(before, after) == after

\* "with transaction.atomic()" left by an exception: the rows are as they
\* were when the block was entered.
AtomicExit(before, after) == before

\* create_order: one step; its writes are inside "with transaction.atomic()".
CreateOrder(user, qs, address, fault) ==
    /\ fault # "read_error"
    /\ Len(orders) < MaxOrders
    /\ LET o == Len(orders) + 1
           ans(status, error) == Answer("create", status, error, 0)
           before == <<orders, orderItems, history>>
           \* the Order row and the items written before the exception
           partial == <<Append(orders, [customer |-> user, status |-> "PENDING",
                                        total_amount |-> 0]),
                        Append(orderItems, ItemRows(ItemsBefore(qs))),
                        Append(history, <<>>)>>
       IN IF user = 0
          THEN /\ olast' = ans(401, "Authentication required")
               /\ UNCHANGED <<orders, orderItems, history>>
          ELSE IF qs = <<>>
          THEN /\ olast' = ans(400, "Order must contain at least one item")
               /\ UNCHANGED <<orders, orderItems, history>>
          ELSE IF address = ""
          THEN /\ olast' = ans(400, "Shipping address is required")
               /\ UNCHANGED <<orders, orderItems, history>>
          ELSE IF \E i \in DOMAIN qs : qs[i] <= 0
          THEN /\ olast' = ans(400, "Invalid quantity")
               /\ orders' = AtomicExit(before, partial)[1]
               /\ orderItems' = AtomicExit(before, partial)[2]
               /\ history' = AtomicExit(before, partial)[3]
          ELSE IF fault = "write_error"
          THEN /\ olast' = ans(500, "Order creation failed")
               /\ orders' = AtomicExit(before, partial)[1]
               /\ orderItems' = AtomicExit(before, partial)[2]
               /\ history' = AtomicExit(before, partial)[3]
          ELSE /\ orders' = Append(orders,
                      [customer |-> user, status |-> "PENDING",
                       total_amount |-> UnitPrice * SumItems(qs)])
               /\ orderItems' = Append(orderItems, ItemRows(qs))
               /\ history' = AddHistory(Append(history, <<>>), o, "", "PENDING")
               /\ olast' = ans(200, "")
    /\ UNCHANGED <<payments, rowlock, oreq>>
    /\ UNCHANGED <<balance, now, walletVars, invVars>>

\* Entry of process_payment, cancel_order and update_order_status:
\* authentication and the fields of the JSON body.
OStart(p, op, user, o, st) ==
    /\ oreq[p].pc = "idle"
    /\ (op = "update" /\ OrderExists(o)) =>
          Len(history[o]) + Cardinality({q \in Procs : oreq[q].op = "update"
                                                        /\ oreq[q].order = o}) < MaxHistory
    /\ LET r == [IdleOrd EXCEPT !.op = op, !.user = user, !.order = o, !.new_status = st]
       IN OrdNext(p,
            CASE op = "pay" ->
                    IF user = 0 THEN OrdDone(r, 401, "Authentication required")
                    ELSE IF o = 0 THEN OrdDone(r, 400, "Order ID is required")
                    ELSE [r EXCEPT !.pc = "pay_read"]
              [] op = "cancel" ->
                    IF user = 0 THEN OrdDone(r, 401, "Authentication required")
                    ELSE IF o = 0 THEN OrdDone(r, 400, "Order ID is required")
                    ELSE [r EXCEPT !.pc = "cancel_read"]
              [] OTHER ->
                    IF ~IsStaff(user) THEN OrdDone(r, 403, "Staff access required")
                    ELSE IF o = 0 \/ st = ""
                         THEN OrdDone(r, 400, "Order ID and status are required")
                    ELSE [r EXCEPT !.pc = "update_read"])
    /\ UNCHANGED <<orders, orderItems, payments, history, rowlock>>
    /\ UNCHANGED <<balance, now, walletVars, invVars>>

\* process_payment: get_object_or_404(Order), the owner and the status check.
PayRead(p) ==
    /\ oreq[p].pc = "pay_read"
    /\ LET r == oreq[p]
       IN OrdNext(p,
            IF ~OrderExists(r.order) THEN OrdDone(r, 500, "No Order matches the given query.")
            ELSE IF orders[r.order].customer # r.user THEN OrdDone(r, 403, "Access denied")
            ELSE IF orders[r.order].status # "PENDING"
                 THEN OrdDone(r, 400, "Cannot pay for order with status")
            ELSE [r EXCEPT !.pc = "pay_lock", !.old_status = orders[r.order].status,
                           !.total = orders[r.order].total_amount])
    /\ UNCHANGED <<orders, orderItems, payments, history, rowlock>>
    /\ UNCHANGED <<balance, now, walletVars, invVars>>

\* process_payment: User.objects.select_for_update().get(...) and the balance
\* check.  An answer ends the transaction and frees the row.
PayLock(p) ==
    /\ oreq[p].pc = "pay_lock"
    /\ LockFree(p, oreq[p].user)
    /\ LET r == oreq[p]
       IN IF InsufficientBalance(balance[r.user], r.total)
          THEN /\ OrdNext(p, OrdDone(r, 400, "Insufficient balance"))
               /\ UNCHANGED rowlock
          ELSE /\ OrdNext(p, [r EXCEPT !.pc = "pay_write"])
               /\ rowlock' = [rowlock EXCEPT ![r.user] = p]
    /\ UNCHANGED <<orders, orderItems, payments, history>>
    /\ UNCHANGED <<balance, now, walletVars, invVars>>

\* process_payment: the payment record, the debit, refresh_from_db, the
\* record and the order saved, the history row, and the commit.  When
\* refresh_from_db fails the handler saves the record as FAILED and the view
\* answers 500: what was written before is committed.
PayWrite(p, fault) ==
    /\ oreq[p].pc = "pay_write"
    /\ LET r == oreq[p]
       IN CASE fault = "write_error" ->
                  /\ OrdNext(p, OrdDone(r, 500, "Payment failed"))
                  /\ UNCHANGED <<balance, orders, payments, history>>
            [] fault = "read_error" ->
                  /\ payments' = AddPayment(payments,
                                    Payment(r.order, "WALLET", r.total, "FAILED"))
                  /\ balance' = Debit(balance, r.user, r.total)
                  /\ OrdNext(p, OrdDone(r, 500, "Payment failed"))
                  /\ UNCHANGED <<orders, history>>
            [] OTHER ->
                  /\ payments' = AddPayment(payments,
                                    Payment(r.order, "WALLET", r.total, "COMPLETED"))
                  /\ balance' = Debit(balance, r.user, r.total)
                  /\ orders' = SetStatus(orders, r.order, "CONFIRMED")
                  /\ history' = AddHistory(history, r.order, r.old_status, "CONFIRMED")
                  /\ OrdNext(p, OrdDone(r, 200, ""))
    /\ rowlock' = ReleaseLock(rowlock, oreq[p].user)
    /\ UNCHANGED orderItems
    /\ UNCHANGED <<now, walletVars, invVars>>

\* cancel_order: get_object_or_404(Order), the access and the status check.
CancelRead(p) ==
    /\ oreq[p].pc = "cancel_read"
    /\ LET r == oreq[p]
       IN OrdNext(p,
            IF ~OrderExists(r.order) THEN OrdDone(r, 500, "No Order matches the given query.")
            ELSE IF orders[r.order].customer # r.user /\ ~IsStaff(r.user)
                 THEN OrdDone(r, 403, "Access denied")
            ELSE IF NotCancellable(orders[r.order].status)
                 THEN OrdDone(r, 400, "Cannot cancel order with status")
            ELSE LET st == orders[r.order].status
                     refund == st \in {"CONFIRMED", "PROCESSING", "SHIPPED"}
                 IN [r EXCEPT !.pc = IF refund THEN "cancel_sum" ELSE "cancel_write",
                              !.old_status = st, !.needs_refund = refund])
    /\ UNCHANGED <<orders, orderItems, payments, history, rowlock>>
    /\ UNCHANGED <<balance, now, walletVars, invVars>>

\* cancel_order: the sum of the order's COMPLETED WALLET payments.
CancelSum(p) ==
    /\ oreq[p].pc = "cancel_sum"
    /\ LET r == oreq[p]
       IN OrdNext(p, [r EXCEPT !.pc = "cancel_write",
                               !.refund = CompletedSum(payments, r.order, "WALLET")])
    /\ UNCHANGED <<orders, orderItems, payments, history, rowlock>>
    /\ UNCHANGED <<balance, now, walletVars, invVars>>

\* cancel_order: the refund record and the credit (when the sum is positive),
\* the order saved as CANCELLED, the history row, the sum read again for the
\* answer, and the commit.
CancelWrite(p, fault) ==
    /\ oreq[p].pc = "cancel_write"
    /\ LET r == oreq[p]
           customer == orders[r.order].customer
       IN /\ fault = "read_error" => r.needs_refund
          /\ r.refund > 0 => LockFree(p, customer)
          /\ IF fault = "write_error"
             THEN /\ OrdNext(p, OrdDone(r, 500, "Cancellation failed"))
                  /\ UNCHANGED <<balance, orders, payments, history>>
             ELSE /\ IF r.refund > 0
                     THEN /\ payments' = AddPayment(payments,
                                    Payment(r.order, "REFUND", r.refund, "COMPLETED"))
                          /\ balance' = Credit(balance, customer, r.refund)
                     ELSE UNCHANGED <<payments, balance>>
                  /\ orders' = SetStatus(orders, r.order, "CANCELLED")
                  /\ history' = AddHistory(history, r.order, r.old_status, "CANCELLED")
                  /\ OrdNext(p, IF fault = "read_error"
                                THEN OrdDone(r, 500, "Cancellation failed")
                                ELSE OrdDone(r, 200, ""))
    /\ UNCHANGED <<orderItems, rowlock>>
    /\ UNCHANGED <<now, walletVars, invVars>>

\* update_order_status: get_object_or_404(Order) and the status checks.
UpdateRead(p) ==
    /\ oreq[p].pc = "update_read"
    /\ LET r == oreq[p]
       IN OrdNext(p,
            IF ~OrderExists(r.order) THEN OrdDone(r, 500, "No Order matches the given query.")
            ELSE IF r.new_status \notin Statuses THEN OrdDone(r, 400, "Invalid status")
            ELSE IF orders[r.order].status = r.new_status
                 THEN OrdDone(r, 400, "Order already has this status")
            ELSE [r EXCEPT !.pc = "update_write", !.old_status = orders[r.order].status])
    /\ UNCHANGED <<orders, orderItems, payments, history, rowlock>>
    /\ UNCHANGED <<balance, now, walletVars, invVars>>

\* update_order_status: the order saved, the history row, and the commit.
UpdateWrite(p, fault) ==
    /\ oreq[p].pc = "update_write"
    /\ fault # "read_error"
    /\ LET r == oreq[p]
       IN IF fault = "write_error"
          THEN /\ OrdNext(p, OrdDone(r, 500, "Status update failed"))
               /\ UNCHANGED <<orders, history>>
          ELSE /\ orders' = SetStatus(orders, r.order, r.new_status)
               /\ history' = AddHistory(history, r.order, r.old_status, r.new_status)
               /\ OrdNext(p, OrdDone(r, 200, ""))
    /\ UNCHANGED <<orderItems, payments, rowlock>>
    /\ UNCHANGED <<balance, now, walletVars, invVars>>

\* A request to an order view without an idempotency key: a POST is
\* answered 400 by the middleware, any other method 405 by the view.
KeylessOrd(op) ==
    \E method \in Methods :
        /\ olast' = IF MiddlewareRejects(method, "")
                    THEN Answer(op, 400, "Idempotency-Key required", 0)
                    ELSE Answer(op, 405, "Method not allowed", 0)
        /\ UNCHANGED <<orders, orderItems, payments, history, rowlock, oreq>>
        /\ UNCHANGED <<balance, now, walletVars, invVars>>

OrdInit ==
    /\ orders = <<>>
    /\ orderItems = <<>>
    /\ payments = EmptyBag
    /\ history = <<>>
    /\ rowlock = [u \in Users |-> "none"]
    /\ oreq = [p \in Procs |-> IdleOrd]
    /\ olast = Answer("", 0, "", 0)

WalletInit ==
    /\ balance = InitBalance
    /\ topups = <<>>
    /\ topupLogs = <<>>
    /\ cache = <<>>
    /\ now = 0
    /\ wreq = [p \in Procs |-> IdleReq]
    /\ wlog = <<>>

vars == <<balance, now, walletVars, invVars, orderVars>>

Init == WalletInit /\ InvInit /\ OrdInit

(***************************************************************************)
(* Specifications.  In the sequential ones a request is submitted only     *)
(* when no other request is in flight.                                     *)
(***************************************************************************)
SeqSubmit(p, caller, key, amount) ==
    /\ InFlight = {}
    /\ WSubmit(p, caller, key, amount)

NextWalletSeq ==
    \/ \E p \in Procs, c \in Callers, k \in Keys, a \in Amounts : SeqSubmit(p, c, k, a)
    \/ \E p \in Procs : TopupSubmit(p)
    \/ \E p \in Procs : ProcessResponse(p)
    \/ Tick

SpecWalletSeq == Init /\ [][NextWalletSeq]_vars

NextWallet ==
    \/ \E p \in Procs, c \in Callers, k \in Keys, a \in Amounts : WSubmit(p, c, k, a)
    \/ \E p \in Procs : TopupSubmit(p)
    \/ \E p \in Procs : ProcessResponse(p)
    \/ Tick

SpecWallet == Init /\ [][NextWallet]_vars

\* The requests a client may submit: the view and its JSON body.
AddSubmit(p, pids, qs) ==
    \E pr \in pids, q \in qs : IStart(p, "add", pr, q, "", 0)

ReservationSubmit(p, pids, qs, oids, users) ==
    \/ \E pr \in pids, q \in qs, o \in oids : IStart(p, "reserve", pr, q, o, 0)
    \/ \E o \in oids : IStart(p, "confirm", "", 0, o, 0)
    \/ \E o \in oids : IStart(p, "release", "", 0, o, 0)
    \/ \E u \in users : IStart(p, "sweep", "", 0, "", u)

NextInvSeq ==
    \/ \E p \in Procs : InvInFlight = {} /\ AddSubmit(p, ProductIds, Quantities)
    \/ \E p \in Procs : InvInFlight = {} /\
            ReservationSubmit(p, ProductIds, Quantities, OrderIds, {1, 3})
    \/ \E p \in Procs : AddStep(p)
    \/ \E p \in Procs : ReservationStep(p)
    \/ Tick

SpecInvSeq == Init /\ [][NextInvSeq]_vars

\* Concurrent reservation requests: well-formed requests of two threads on
\* one product, interleaved step by step.
NextInv ==
    \/ \E p \in Procs :
            ReservationSubmit(p, {"A"}, Quantities \ {0}, OrderIds \ {""}, Staff)
    \/ \E p \in Procs : ReservationStep(p)
    \/ Tick

SpecInv == Init /\ [][NextInv]_vars

\* The requests a customer or an operator may submit to the order service.
PaySubmit(p, users, oids) ==
    \E u \in users, o \in oids : OStart(p, "pay", u, o, "")

CancelSubmit(p, users, oids) ==
    \E u \in users, o \in oids : OStart(p, "cancel", u, o, "")

UpdateSubmit(p, users, oids, sts) ==
    \E u \in users, o \in oids, st \in sts : OStart(p, "update", u, o, st)

PayStep(p) ==
    \/ PayRead(p)
    \/ PayLock(p)
    \/ \E f \in Faults : PayWrite(p, f)

CancelStep(p) ==
    \/ CancelRead(p)
    \/ CancelSum(p)
    \/ \E f \in Faults : CancelWrite(p, f)

UpdateStep(p) ==
    \/ UpdateRead(p)
    \/ \E f \in Faults : UpdateWrite(p, f)

NextOrderSeq ==
    \/ \E u \in {0, 1, 2}, qs \in ItemLists, a \in Addresses, f \in Faults :
            /\ OrdInFlight = {}
            /\ Len(orders) < MaxSeqOrders
            /\ CreateOrder(u, qs, a, f)
    \/ \E p \in Procs : OrdInFlight = {} /\ PaySubmit(p, {0, 1, 2}, 0 .. MaxOrders)
    \/ \E p \in Procs : OrdInFlight = {} /\ CancelSubmit(p, {0, 1, 2, 3}, 0 .. MaxOrders)
    \/ \E p \in Procs : OrdInFlight = {} /\
            UpdateSubmit(p, {1, 3}, 0 .. MaxOrders, StatusInputs)
    \/ \E p \in Procs : PayStep(p)
    \/ \E p \in Procs : CancelStep(p)
    \/ \E p \in Procs : UpdateStep(p)

SpecOrderSeq == Init /\ [][NextOrderSeq]_vars

\* Concurrent payments and cancellations: well-formed requests of one
\* customer, served by two threads and interleaved step by step.
NextOrder ==
    \/ \E qs \in ItemLists \ {<<>>, <<1, 0>>, <<0, 1>>} : CreateOrder(1, qs, "addr", "none")
    \/ \E p \in Procs : PaySubmit(p, {1}, 1 .. MaxOrders)
    \/ \E p \in Procs : CancelSubmit(p, {1}, 1 .. MaxOrders)
    \/ \E p \in Procs : PayStep(p)
    \/ \E p \in Procs : CancelStep(p)

SpecOrder == Init /\ [][NextOrder]_vars

\* The steps of reserve_stock and of cleanup_expired_reservations.
ReserveStep(p) ==
    \/ ReserveRead(p)
    \/ ReserveExists(p)
    \/ \E f \in Faults : ReserveWrite(p, f)

\* The writes of the sweep succeed here.
SweepStep(p) ==
    \/ SweepRead(p)
    \/ SweepWrite(p, "none")

\* Requests without an idempotency key, to every view that changes state,
\* one at a time; the orders and the reservations they find were made by
\* requests that carried a key.
NextNoKey ==
    \/ \E o \in OrderIds \ {""} :
            InvInFlight = {} /\ IStart("p1", "reserve", "A", 1, o, 0)
    \/ \E m \in Methods, u \in {1, 3},
          op \in {"add", "reserve", "confirm", "release", "sweep"} :
            InvInFlight = {} /\ KeylessInv("p1", m, op, "A", 1, "o1", u)
    \/ ReserveStep("p1")
    \/ SweepStep("p1")
    \/ SeqSubmit("p1", 1, "", 10)
    \/ CreateOrder(1, <<1>>, "addr", "none")
    \/ \E op \in {"create", "pay", "cancel", "update"} : KeylessOrd(op)
    \/ Tick

SpecNoKey == Init /\ [][NextNoKey]_vars

\* Requests that fail authorization or input validation, to the three
\* services, one at a time, next to the requests that make the order, the
\* reservation and the payment they are refused on.
NothingInFlight == InFlight = {} /\ InvInFlight = {} /\ OrdInFlight = {}

NextReject ==
    \/ NothingInFlight /\ Len(orders) < MaxSeqOrders
                       /\ CreateOrder(1, <<1>>, "addr", "none")
    \/ NothingInFlight /\ PaySubmit("p1", {1, 2}, {0, 1})
    \/ NothingInFlight /\ CancelSubmit("p1", {2}, {0, 1})
    \/ NothingInFlight /\ UpdateSubmit("p1", {1}, {1}, {"SHIPPED"})
    \/ PayRead("p1") \/ PayLock("p1") \/ PayWrite("p1", "none")
    \/ CancelRead("p1")
    \/ NothingInFlight /\ AddSubmit("p1", {"A"}, {0})
    \/ NothingInFlight /\
            \E q \in {0, 1}, o \in {"", "o1"} : IStart("p1", "reserve", "A", q, o, 0)
    \/ NothingInFlight /\ IStart("p1", "sweep", "", 0, "", 1)
    \/ ReserveStep("p1")
    \/ NothingInFlight /\ \E a \in {0, -10} : WSubmit("p1", 1, "k1", a)
    \/ TopupSubmit("p1")
    \/ ProcessResponse("p1")
    \/ Tick

SpecReject == Init /\ [][NextReject]_vars

\* An order from creation to payment, with the reservation its client
\* makes under the order's id, one request at a time.
NextCheckout ==
    \/ NothingInFlight /\ \E qs \in {<<1>>, <<2>>} : CreateOrder(1, qs, "addr", "none")
    \/ NothingInFlight /\
            \E pr \in Products, q \in Quantities \ {0}, o \in OrderIds \ {""} :
                IStart("p1", "reserve", pr, q, o, 0)
    \/ ReserveStep("p1")
    \/ NothingInFlight /\ PaySubmit("p1", {1}, 1 .. MaxOrders)
    \/ PayStep("p1")
    \/ Tick

SpecCheckout == Init /\ [][NextCheckout]_vars

\* topup_submit step by step, for the interleavings with other writers of
\* the account row: the amount check and user = User.objects.first(), which
\* reads the row with its balance as it is then.
TopupRead(p) ==
    /\ wreq[p].pc = "view"
    /\ LET r == wreq[p]
           resp == JsonResponse(<<PyStr("error", "invalid amount")>>, 400)
       IN wreq' = [wreq EXCEPT ![p] =
                     IF r.amount <= 0
                     THEN [r EXCEPT !.pc = "respond", !.status = resp.status,
                                    !.body = resp.body]
                     ELSE [r EXCEPT !.pc = "update", !.seen = balance[FirstUser]]]
    /\ UNCHANGED <<balance, topups, topupLogs, cache, now, wlog>>
    /\ UNCHANGED <<invVars, orderVars>>

FBalanceStale(current, seen, amount) == seen + amount

\* user.balance = F('balance') + amount; user.save(update_fields=['balance']):
\* the database adds the amount to the balance the row has at the update.
FBalance(current, seen, amount) == current + amount

\* topup_submit: the TopUp and TopUpLog rows, the update of the balance (it
\* waits for a lock on the row), refresh_from_db and the commit.
TopupWrite(p) ==
    /\ wreq[p].pc = "update"
    /\ LockFree(p, FirstUser)
    /\ LET r == wreq[p]
           user == FirstUser
           newBalance == FBalance(balance[user], r.seen, r.amount)
           resp == JsonResponse(<<PyStr("detail", "topup ok"),
                                  PyInt("amount", r.amount),
                                  PyDecimal("new_balance", newBalance)>>, 200)
       IN /\ topups' = Append(topups, [user |-> user, amount |-> r.amount])
          /\ topupLogs' = Append(topupLogs, [topup |-> Len(topups) + 1])
          /\ balance' = [balance EXCEPT ![user] = newBalance]
          /\ wreq' = [wreq EXCEPT ![p] = [r EXCEPT !.pc = "respond",
                         !.status = resp.status, !.body = resp.body,
                         !.executed = TRUE,
                         !.rows = Len(topups') - Len(topups),
                         !.logs = Len(topupLogs') - Len(topupLogs),
                         !.delta = balance'[user] - balance[user]]]
    /\ UNCHANGED <<cache, now, wlog>>
    /\ UNCHANGED <<invVars, orderVars>>

\* The key each thread's client uses: top-ups of different threads carry
\* different keys.
KeyOf(p) == IF p = "p1" THEN "k1" ELSE "k2"

\* A thread serves one request at a time.
ThreadIdle(p) == wreq[p].pc = "idle" /\ oreq[p].pc = "idle"

\* Concurrent writers of one account: top-ups with different keys, the
\* payment of an order and its cancellation, interleaved step by step.
NextBalance ==
    \/ \E p \in Procs, a \in Amounts : ThreadIdle(p) /\ WSubmit(p, 1, KeyOf(p), a)
    \/ \E p \in Procs : TopupRead(p)
    \/ \E p \in Procs : TopupWrite(p)
    \/ \E p \in Procs : ProcessResponse(p)
    \/ Len(orders) < MaxSeqOrders /\ CreateOrder(1, <<1>>, "addr", "none")
    \/ \E p \in Procs : ThreadIdle(p) /\ PaySubmit(p, {1}, {1})
    \/ \E p \in Procs : ThreadIdle(p) /\ CancelSubmit(p, {1}, {1})
    \/ \E p \in Procs : PayStep(p)
    \/ \E p \in Procs : CancelStep(p)

SpecBalance == Init /\ [][NextBalance]_vars

(***************************************************************************)
(* Quantities the properties speak about.                                  *)
(***************************************************************************)
RECURSIVE SumQuantity(_, _)
SumQuantity(rows, m) ==
    IF rows = {} THEN 0
    ELSE LET x == CHOOSE y \in rows : TRUE
         IN x.quantity * CopiesIn(x, m) + SumQuantity(rows \ {x}, m)

\* Sum of the quantities of the ledger rows of a type for a product.
MovedQty(type, prod) ==
    SumQuantity({x \in BagToSet(movements) :
                    x.movement_type = type /\ x.product = prod}, movements)

RECURSIVE SumReserved(_)
SumReserved(rows) ==
    IF rows = {} THEN 0
    ELSE LET x == CHOOSE y \in rows : TRUE
         IN x.quantity + SumReserved(rows \ {x})

\* Sum of the quantities of the open reservations of a product.
OpenQty(prod) == SumReserved({res \in reservations : res.product = prod})

\* Number of OUT and RELEASED ledger rows about one reservation row.
Resolutions(rid) ==
    CountRows({x \in BagToSet(movements) :
                  x.rid = rid /\ x.movement_type \in {"OUT", "RELEASED"}}, movements)

RECURSIVE SumLog(_, _, _)
SumLog(idx, field, log) ==
    IF idx = {} THEN 0
    ELSE LET i == CHOOSE j \in idx : TRUE
         IN log[i][field] + SumLog(idx \ {i}, field, log)

\* The answered wallet requests of a cache key, and the first of them that
\* ran the view and was answered 200.
LogOf(ck) == {i \in DOMAIN wlog : wlog[i].ckey = ck}
Executed200(ck) == {i \in LogOf(ck) : wlog[i].executed /\ wlog[i].status = 200}
FirstOf(idx) == CHOOSE i \in idx : \A j \in idx : i <= j

(***************************************************************************)
(* C1: idempotent replay, requests served one after the other              *)
(* (SpecWalletSeq).  Once a POST with a key has run the view and been      *)
(* answered 200, every later request with the same cache key that arrives  *)
(* before the entry expires gets the same status and the same body and     *)
(* runs nothing: it creates no TopUp row, no TopUpLog row and leaves the   *)
(* balance alone.  When all the submissions of a key arrive within the     *)
(* TTL of the first, they leave exactly one TopUp row, one TopUpLog row    *)
(* and the balance raised by the amount once.                              *)
(***************************************************************************)
C1_SequentialReplay ==
    /\ \A i, j \in DOMAIN wlog :
          ( /\ i < j
            /\ wlog[i].ckey = wlog[j].ckey
            /\ wlog[i].executed
            /\ wlog[i].status = 200
            /\ wlog[j].tstart < wlog[i].tdone + TTL )
          => /\ wlog[j].status = wlog[i].status
             /\ wlog[j].body = wlog[i].body
             /\ ~wlog[j].executed
             /\ wlog[j].rows = 0 /\ wlog[j].logs = 0 /\ wlog[j].delta = 0
    /\ \A k \in Keys \ {""} :
          LET ck == CacheKey("POST", TopupPath, k)
              ex == Executed200(ck)
          IN ( /\ ex # {}
               /\ \A j \in LogOf(ck) :
                     j > FirstOf(ex) => wlog[j].tstart < wlog[FirstOf(ex)].tdone + TTL )
             => /\ SumLog(LogOf(ck), "rows", wlog) = 1
                /\ SumLog(LogOf(ck), "logs", wlog) = 1
                /\ SumLog(LogOf(ck), "delta", wlog) = wlog[FirstOf(ex)].body[2].n
    /\ InFlight = {} =>
          /\ Len(topups) = SumLog(DOMAIN wlog, "rows", wlog)
          /\ Len(topupLogs) = SumLog(DOMAIN wlog, "logs", wlog)
          /\ balance[FirstUser] = InitBalance[FirstUser] + SumLog(DOMAIN wlog, "delta", wlog)

\* Three submissions of one key have been answered: the first ran the view,
\* the two later ones were replayed.
C1_Witness ==
    \E k \in Keys \ {""} :
        LET ck == CacheKey("POST", TopupPath, k)
        IN /\ Cardinality(LogOf(ck)) = 3
           /\ Cardinality(Executed200(ck)) = 1
           /\ \A j \in LogOf(ck) : wlog[j].status = 200
           /\ Len(topups) = 1

(***************************************************************************)
(* C2: idempotency under a race (SpecWallet).  Two requests with the same  *)
(* cache key that are in flight together never both apply the mutation.    *)
(***************************************************************************)
C2_AtMostOnceUnderRace ==
    \A p, q \in Procs :
        ( /\ p # q
          /\ wreq[p].pc = "respond"
          /\ wreq[q].pc = "respond"
          /\ wreq[p].key = wreq[q].key )
        => ~(wreq[p].executed /\ wreq[q].executed)

(***************************************************************************)
(* C3: reservation conservation (SpecInvSeq).  For each product,           *)
(* stock_quantity plus the quantities of its open reservations equals the  *)
(* initial stock plus the IN movements minus the OUT movements.            *)
(***************************************************************************)
C3_Conservation ==
    \A pr \in Products :
        stock[pr] + OpenQty(pr) =
            InitStock[pr] + MovedQty("IN", pr) - MovedQty("OUT", pr)

\* Stock has been added, one reservation confirmed and one released.
C3_Witness ==
    /\ InvInFlight = {}
    /\ MovementCount(movements, "IN") >= 1
    /\ MovementCount(movements, "OUT") >= 1
    /\ MovementCount(movements, "RELEASED") >= 1

(***************************************************************************)
(* C4: no oversell (SpecInv).  stock_quantity is never negative, and a     *)
(* Reserve that is answered 200 asked for no more than the stock at the    *)
(* time of its write and took exactly that quantity from it.               *)
(***************************************************************************)
C4_NoOversell ==
    /\ [](\A pr \in Products : stock[pr] >= 0)
    /\ [][\A p \in Procs :
             ( /\ ireq[p].pc = "reserve_write"
               /\ ireq'[p].pc = "idle"
               /\ ilast'.status = 200 )
             => /\ ireq[p].quantity <= stock[ireq[p].product]
                /\ stock'[ireq[p].product] =
                       stock[ireq[p].product] - ireq[p].quantity]_vars

\* A Reserve has passed its stock check, and the stock it saw has since
\* been taken by another reservation.
C4_Witness ==
    \E p \in Procs :
        /\ ireq[p].pc = "reserve_write"
        /\ ireq[p].quantity > stock[ireq[p].product]
        /\ reservations # {}

(***************************************************************************)
(* C5: payment atomicity (SpecOrderSeq).  A ProcessPayment request that    *)
(* has passed its checks ends, whatever step fails, either with the order  *)
(* CONFIRMED, the payer's balance reduced by exactly total_amount and one  *)
(* new COMPLETED WALLET record, or with the order still PENDING, the       *)
(* balance unchanged and a FAILED record or none.                          *)
(***************************************************************************)
C5_PaymentAtomicity ==
    [][\A p \in Procs :
          (oreq[p].pc = "pay_write" /\ oreq'[p].pc = "idle") =>
             LET o == oreq[p].order
                 u == oreq[p].user
                 total == orders[o].total_amount
             IN \/ /\ orders'[o].status = "CONFIRMED"
                   /\ balance' = [balance EXCEPT ![u] = balance[u] - total]
                   /\ payments' = payments (+)
                         SetToBag({Payment(o, "WALLET", total, "COMPLETED")})
                \/ /\ orders'[o].status = "PENDING"
                   /\ balance' = balance
                   /\ \/ payments' = payments
                      \/ payments' = payments (+)
                            SetToBag({Payment(o, "WALLET", total, "FAILED")})]_vars

PaidStatuses == {"CONFIRMED", "PROCESSING", "SHIPPED"}

(***************************************************************************)
(* C6: cancellation refund completeness (SpecOrderSeq).  A CancelOrder     *)
(* request on an order that is CONFIRMED, PROCESSING or SHIPPED ends,      *)
(* whatever step fails, either with the order CANCELLED, the customer's    *)
(* balance credited by the sum of the order's COMPLETED WALLET payments    *)
(* and a new COMPLETED REFUND record of that sum, or with the order, the   *)
(* balance and the payment records as they were.                           *)
(***************************************************************************)
C6_RefundCompleteness ==
    [][\A p \in Procs :
          ( /\ oreq[p].pc = "cancel_write"
            /\ oreq'[p].pc = "idle"
            /\ orders[oreq[p].order].status \in PaidStatuses ) =>
             LET o == oreq[p].order
                 c == orders[o].customer
                 refund == CompletedSum(payments, o, "WALLET")
             IN \/ /\ orders'[o].status = "CANCELLED"
                   /\ balance' = [balance EXCEPT ![c] = balance[c] + refund]
                   /\ payments' = payments (+)
                         SetToBag({Payment(o, "REFUND", refund, "COMPLETED")})
                \/ /\ orders' = orders
                   /\ balance' = balance
                   /\ payments' = payments]_vars

\* C6 as the code has it: the COMPLETED REFUND record is written only when
\* the sum of the order's COMPLETED WALLET payments is greater than zero;
\* when it is zero the order is CANCELLED with the balance and the payment
\* records as they were.
C6_RefundCompletenessPositive ==
    [][\A p \in Procs :
          ( /\ oreq[p].pc = "cancel_write"
            /\ oreq'[p].pc = "idle"
            /\ orders[oreq[p].order].status \in PaidStatuses ) =>
             LET o == oreq[p].order
                 c == orders[o].customer
                 refund == CompletedSum(payments, o, "WALLET")
             IN \/ /\ orders'[o].status = "CANCELLED"
                   /\ balance' = [balance EXCEPT ![c] = balance[c] + refund]
                   /\ payments' = IF refund > 0
                                  THEN payments (+) SetToBag(
                                          {Payment(o, "REFUND", refund, "COMPLETED")})
                                  ELSE payments
                \/ /\ orders' = orders
                   /\ balance' = balance
                   /\ payments' = payments]_vars

\* A paid order has been cancelled: the answer is 200, the order is
\* CANCELLED and its payment has been refunded to the customer.
C6_Witness ==
    /\ olast.op = "cancel"
    /\ olast.status = 200
    /\ \E o \in DOMAIN orders :
          /\ orders[o].status = "CANCELLED"
          /\ CompletedSum(payments, o, "WALLET") > 0
          /\ CompletedSum(payments, o, "REFUND") = CompletedSum(payments, o, "WALLET")
          /\ balance[orders[o].customer] = InitBalance[orders[o].customer]

(***************************************************************************)
(* C7: each reservation is resolved at most once (SpecInv).  For every     *)
(* reservation row there is at most one OUT or RELEASED movement.          *)
(***************************************************************************)
C7_ResolvedOnce ==
    \A rid \in 1..nextRid : Resolutions(rid) <= 1

(***************************************************************************)
(* C8: no double-spend of a balance (SpecOrder).  A payment is between     *)
(* its sufficiency check and its debit only while it holds the lock of     *)
(* the account row, the balance it has checked is still there when it      *)
(* debits, and no account balance is ever negative.                        *)
(***************************************************************************)
C8_NoDoubleSpend ==
    /\ \A u \in Users : balance[u] >= 0
    /\ \A p \in Procs :
          oreq[p].pc = "pay_write" =>
             /\ rowlock[oreq[p].user] = p
             /\ balance[oreq[p].user] >= oreq[p].total

\* One payment holds the account row between its check and its debit while
\* a payment of the same account for another order waits for the row, and
\* the balance does not cover both.
C8_Witness ==
    \E p, q \in Procs :
        /\ oreq[p].pc = "pay_write"
        /\ oreq[q].pc = "pay_lock"
        /\ oreq[p].user = oreq[q].user
        /\ oreq[p].order # oreq[q].order
        /\ balance[oreq[p].user] < oreq[p].total + oreq[q].total

(***************************************************************************)
(* C9: the net paid amount is bounded (SpecOrderSeq).  For every order     *)
(* the sum of its COMPLETED WALLET payments minus the sum of its           *)
(* COMPLETED REFUND payments is at most its total_amount.                  *)
(***************************************************************************)
C9_NetPaidBounded ==
    \A o \in DOMAIN orders :
        CompletedSum(payments, o, "WALLET") - CompletedSum(payments, o, "REFUND")
            <= orders[o].total_amount

(***************************************************************************)
(* C10: no money vanishes on cancellation (SpecOrderSeq).  An order whose  *)
(* status is CANCELLED has COMPLETED REFUND payments equal in sum to its    *)
(* COMPLETED WALLET payments.                                              *)
(***************************************************************************)
C10_CancelledIsRefunded ==
    \A o \in DOMAIN orders :
        orders[o].status = "CANCELLED" =>
            CompletedSum(payments, o, "REFUND") = CompletedSum(payments, o, "WALLET")

(***************************************************************************)
(* C11: the order status follows the state machine (SpecOrderSeq).  A      *)
(* status only moves along PENDING -> CONFIRMED -> PROCESSING -> SHIPPED   *)
(* -> DELIVERED or from PENDING, CONFIRMED, PROCESSING or SHIPPED to       *)
(* CANCELLED, and the status of a CANCELLED order never changes again.     *)
(***************************************************************************)
C11_StateMachine ==
    [][\A o \in DOMAIN orders :
          orders'[o].status # orders[o].status =>
             <<orders[o].status, orders'[o].status>> \in
                {<<"PENDING", "CONFIRMED">>, <<"CONFIRMED", "PROCESSING">>,
                 <<"PROCESSING", "SHIPPED">>, <<"SHIPPED", "DELIVERED">>}
                \cup {<<st, "CANCELLED">> :
                         st \in {"PENDING", "CONFIRMED", "PROCESSING", "SHIPPED"}}]_vars

(***************************************************************************)
(* C12: the status history is a complete append-only audit trail           *)
(* (SpecOrderSeq).  A step that creates an order writes the one row        *)
(* '' -> PENDING; a step that changes the status of an order appends       *)
(* exactly one row, from the status before to the status after; every      *)
(* other step leaves the rows of the order as they are.                    *)
(***************************************************************************)
C12_AuditTrail ==
    [][/\ DOMAIN history' = DOMAIN orders'
       /\ \A o \in DOMAIN orders' \ DOMAIN orders :
             /\ orders'[o].status = "PENDING"
             /\ history'[o] = <<[from_status |-> "", to_status |-> "PENDING"]>>
       /\ \A o \in DOMAIN orders :
             IF orders'[o].status # orders[o].status
             THEN history'[o] = Append(history[o],
                                       [from_status |-> orders[o].status,
                                        to_status |-> orders'[o].status])
             ELSE history'[o] = history[o]]_vars

\* An order has been created, paid and cancelled: three rows.
C12_Witness ==
    \E o \in DOMAIN orders :
        history[o] = <<[from_status |-> "", to_status |-> "PENDING"],
                       [from_status |-> "PENDING", to_status |-> "CONFIRMED"],
                       [from_status |-> "CONFIRMED", to_status |-> "CANCELLED"]>>

\* The ledger m2 is the ledger m1 with one more row.
OneMoreRow(m1, m2, row) == m2 = m1 (+) SetToBag({row})

(***************************************************************************)
(* C14: Reserve success effect (SpecInvSeq).  A Reserve reaches its        *)
(* writes with a positive quantity that the stock covers and no            *)
(* reservation for the order; answered 200 it has taken exactly the        *)
(* quantity from the stock of its product and of no other, created one     *)
(* reservation (product, quantity, order_id, expires_at = now + 30         *)
(* minutes) and appended one RESERVED movement of the quantity that        *)
(* refers to the order_id.                                                 *)
(***************************************************************************)
C14_ReserveEffect ==
    [][\A p \in Procs :
          (ireq[p].pc = "reserve_write" /\ ireq'[p].pc = "idle") =>
             LET r == ireq[p]
             IN /\ r.quantity > 0
                /\ r.quantity <= stock[r.product]
                /\ ResFor(r.order) = {}
                /\ ilast'.status \in {200, 500}
                /\ ilast'.status = 200 =>
                      /\ stock' = [stock EXCEPT ![r.product] = stock[r.product] - r.quantity]
                      /\ \E res \in reservations' :
                            /\ res \notin reservations
                            /\ reservations' = reservations \cup {res}
                            /\ res.product = r.product
                            /\ res.quantity = r.quantity
                            /\ res.order_id = r.order
                            /\ res.expires_at = now + ReservationWindow
                            /\ OneMoreRow(movements, movements',
                                  [product |-> r.product, movement_type |-> "RESERVED",
                                   quantity |-> r.quantity, reference_id |-> r.order,
                                   rid |-> res.id])]_vars

\* A Reserve has been answered 200 and holds part of the stock of its product.
C14_Witness ==
    /\ ilast.op = "reserve"
    /\ ilast.status = 200
    /\ \E res \in reservations :
          /\ res.expires_at = now + ReservationWindow
          /\ stock[res.product] = InitStock[res.product] - res.quantity

(***************************************************************************)
(* C15: Confirm success effect (SpecInvSeq).  Confirm of an open,          *)
(* unexpired reservation goes on to its writes; answered 200 it has        *)
(* appended one OUT movement with the reserved quantity and the order_id,  *)
(* deleted the reservation and left every stock_quantity as it was.        *)
(***************************************************************************)
C15_ConfirmEffect ==
    [][\A p \in Procs :
          /\ ( /\ ireq[p].pc = "confirm_read"
               /\ \E res \in ResFor(ireq[p].order) : ~(res.expires_at < now) )
             => ireq'[p].pc \in {"confirm_read", "confirm_write"}
          /\ ( /\ ireq[p].pc = "confirm_write"
               /\ ireq'[p].pc = "idle"
               /\ ilast'.status = 200 )
             => \E res \in ResFor(ireq[p].order) :
                   /\ OneMoreRow(movements, movements',
                         [product |-> res.product, movement_type |-> "OUT",
                          quantity |-> res.quantity, reference_id |-> res.order_id,
                          rid |-> res.id])
                   /\ reservations' = reservations \ {res}
                   /\ stock' = stock]_vars

\* A reservation has been confirmed: the stock is still without the quantity
\* that the OUT movement records.
C15_Witness ==
    /\ ilast.op = "confirm"
    /\ ilast.status = 200
    /\ reservations = {}
    /\ \E pr \in Products :
          /\ MovedQty("OUT", pr) > 0
          /\ stock[pr] = InitStock[pr] + MovedQty("IN", pr) - MovedQty("OUT", pr)

(***************************************************************************)
(* C16: Release restores stock (SpecInvSeq).  A Release answered 200 has   *)
(* added exactly the reserved quantity to the stock of the product,        *)
(* appended one RELEASED movement with that quantity and the order_id,     *)
(* and deleted the reservation; the quantity is the one the RESERVED       *)
(* movement of the reservation records, so Reserve followed by Release     *)
(* gives the stock its value before the Reserve.                           *)
(***************************************************************************)
C16_ReleaseRestores ==
    [][\A p \in Procs :
          ( /\ ireq[p].pc = "release_write"
            /\ ireq'[p].pc = "idle"
            /\ ilast'.status = 200 )
          => \E res \in ResFor(ireq[p].order) :
                /\ stock' = [stock EXCEPT ![res.product] = stock[res.product] + res.quantity]
                /\ OneMoreRow(movements, movements',
                      [product |-> res.product, movement_type |-> "RELEASED",
                       quantity |-> res.quantity, reference_id |-> res.order_id,
                       rid |-> res.id])
                /\ reservations' = reservations \ {res}
                /\ CopiesIn([product |-> res.product, movement_type |-> "RESERVED",
                             quantity |-> res.quantity, reference_id |-> res.order_id,
                             rid |-> res.id], movements) = 1]_vars

\* Reserve followed by Release: nothing is reserved and the stock is what it
\* was at the start.
C16_Witness ==
    /\ ilast.op = "release"
    /\ ilast.status = 200
    /\ reservations = {}
    /\ MovementCount(movements, "RESERVED") = 1
    /\ MovementCount(movements, "RELEASED") = 1
    /\ MovementCount(movements, "IN") = 0
    /\ stock = InitStock

(***************************************************************************)
(* C17: SweepExpired effect (SpecInvSeq).  A sweep by an operator selects  *)
(* exactly the reservations whose expires_at is earlier than now; for      *)
(* each of them it adds the quantity back to the stock of its product,     *)
(* appends one RELEASED movement and deletes the reservation; the other    *)
(* reservations and the stock they hold are unchanged, and the count       *)
(* answered is the number of reservations released.                        *)
(***************************************************************************)
C17_SweepEffect ==
    [][\A p \in Procs :
          /\ (ireq[p].pc = "sweep_read" /\ ireq'[p].pc # "sweep_read") =>
                /\ ireq[p].user \in Staff
                /\ ireq'[p].pc = "sweep_write"
                /\ ireq'[p].snap = {res \in reservations : res.expires_at < now}
          /\ ( /\ ireq[p].pc = "sweep_write"
               /\ ireq'[p].pc = "idle"
               /\ ilast'.status = 200 )
             => LET E == ireq[p].snap
                IN /\ E \subseteq reservations
                   /\ reservations' = reservations \ E
                   /\ \A pr \in Products :
                         stock'[pr] = stock[pr]
                             + SumReserved({res \in E : res.product = pr})
                   /\ BagCardinality(movements') = BagCardinality(movements) + Cardinality(E)
                   /\ \A res \in E :
                         LET row == [product |-> res.product, movement_type |-> "RELEASED",
                                     quantity |-> res.quantity,
                                     reference_id |-> res.order_id, rid |-> res.id]
                         IN CopiesIn(row, movements') = CopiesIn(row, movements) + 1
                   /\ ilast'.count = Cardinality(E)]_vars

\* A sweep has released one expired reservation and has left one that has
\* not expired.
C17_Witness ==
    /\ ilast.op = "sweep"
    /\ ilast.status = 200
    /\ ilast.count = 1
    /\ MovementCount(movements, "RELEASED") = 1
    /\ \E res \in reservations : ~(res.expires_at < now)

(***************************************************************************)
(* C18: insufficient stock is rejected without effect (SpecInvSeq).  A     *)
(* Reserve whose quantity is greater than the stock_quantity of its        *)
(* product is answered 400 'Insufficient stock' and leaves the stock, the  *)
(* reservations and the movement ledger unchanged.                         *)
(***************************************************************************)
C18_InsufficientRejected ==
    [][\A p \in Procs :
          ( /\ ireq[p].pc = "reserve_read"
            /\ ireq'[p].pc # "reserve_read"
            /\ ireq[p].product \in Products
            /\ ireq[p].quantity > stock[ireq[p].product] )
          => /\ ireq'[p].pc = "idle"
             /\ ilast'.status = 400
             /\ ilast'.error = "Insufficient stock"
             /\ UNCHANGED <<stock, reservations, movements>>]_vars

\* Part of the stock is reserved for one order and a Reserve for more than
\* what is left has been rejected.
C18_Witness ==
    /\ ilast.op = "reserve"
    /\ ilast.error = "Insufficient stock"
    /\ \E res \in reservations :
          /\ stock[res.product] = InitStock[res.product] - res.quantity
          /\ stock[res.product] > 0

(***************************************************************************)
(* C19: Confirm after expiry never succeeds (SpecInvSeq).  Confirm of a    *)
(* reservation whose expires_at is earlier than now is answered 400        *)
(* 'Reservation has expired', writes no OUT movement and leaves the        *)
(* reservation and the stock unchanged.                                    *)
(***************************************************************************)
C19_ConfirmAfterExpiry ==
    [][\A p \in Procs :
          ( /\ ireq[p].pc = "confirm_read"
            /\ ireq'[p].pc # "confirm_read"
            /\ \E res \in ResFor(ireq[p].order) : res.expires_at < now )
          => /\ ireq'[p].pc = "idle"
             /\ ilast'.status = 400
             /\ ilast'.error = "Reservation has expired"
             /\ UNCHANGED <<stock, reservations, movements>>]_vars

\* A Confirm has been rejected as expired and the reservation still holds
\* its stock.
C19_Witness ==
    /\ ilast.op = "confirm"
    /\ ilast.error = "Reservation has expired"
    /\ \E res \in reservations :
          /\ res.expires_at < now
          /\ stock[res.product] = InitStock[res.product] - res.quantity

(***************************************************************************)
(* C20: ProcessPayment preconditions (SpecOrderSeq).  ProcessPayment for   *)
(* an order whose status is not PENDING is rejected, and so is one whose   *)
(* payer's balance is less than the order's total_amount ('Insufficient    *)
(* balance'); in both cases the balance, the order status, the payment     *)
(* records and the status history are unchanged.                           *)
(***************************************************************************)
C20_PaymentPreconditions ==
    [][\A p \in Procs :
          /\ ( /\ oreq[p].pc = "pay_read"
               /\ oreq'[p].pc # "pay_read"
               /\ OrderExists(oreq[p].order)
               /\ orders[oreq[p].order].status # "PENDING" )
             => /\ oreq'[p].pc = "idle"
                /\ olast'.status \in {400, 403}
                /\ UNCHANGED <<balance, orders, payments, history>>
          /\ ( /\ oreq[p].pc = "pay_lock"
               /\ oreq'[p].pc # "pay_lock"
               /\ balance[oreq[p].user] < orders[oreq[p].order].total_amount )
             => /\ oreq'[p].pc = "idle"
                /\ olast'.status = 400
                /\ olast'.error = "Insufficient balance"
                /\ UNCHANGED <<balance, orders, payments, history>>]_vars

\* A payment has been rejected for its balance: the order is PENDING, no
\* payment is recorded and the payer still has all of a balance that is
\* less than the total.
C20_Witness ==
    /\ olast.op = "pay"
    /\ olast.error = "Insufficient balance"
    /\ \E o \in DOMAIN orders :
          /\ orders[o].status = "PENDING"
          /\ balance[orders[o].customer] = InitBalance[orders[o].customer]
          /\ balance[orders[o].customer] < orders[o].total_amount
          /\ payments = EmptyBag

(***************************************************************************)
(* C13: missing idempotency key (SpecNoKey).  A request to a view that     *)
(* changes state, carrying no idempotency key, is answered with a client   *)
(* error and leaves balances, stock, reservations, movements, orders,      *)
(* payments and the cache unchanged.                                       *)
(***************************************************************************)
C13_MissingKeyRejected ==
    [][/\ \A p \in Procs :
             ( /\ ireq[p].pc # "idle"
               /\ ireq[p].key = ""
               /\ ireq'[p] # ireq[p] )
             => /\ UNCHANGED <<balance, stock, reservations, movements,
                               orders, payments, cache>>
                /\ ireq'[p].pc = "idle" => ilast'.status \in 400 .. 499
       /\ ( /\ ilast' # ilast
            /\ ilast'.error \in {"Idempotency-Key required", "Method not allowed"} )
          => UNCHANGED <<balance, stock, reservations, movements,
                         orders, payments, cache>>
       /\ ( /\ olast' # olast
            /\ olast'.error \in {"Idempotency-Key required", "Method not allowed"} )
          => UNCHANGED <<balance, stock, reservations, movements,
                         orders, payments, cache>>
       /\ \A i \in DOMAIN wlog' \ DOMAIN wlog :
             wlog'[i].ckey = CacheKey("POST", TopupPath, "")
             => /\ wlog'[i].status \in 400 .. 499
                /\ UNCHANGED <<balance, stock, reservations, movements,
                               orders, payments, cache>>]_vars

PaidSum(o) ==
    SumAmount({x \in BagToSet(payments) :
                  x.order = o /\ x.payment_type = "WALLET" /\ x.status = "COMPLETED"},
              payments)

CancelSucceeds(p) ==
    /\ oreq[p].pc = "cancel_write"
    /\ oreq'[p].pc = "idle"
    /\ olast'.status = 200

C22_RefundExact ==
    [][\A p \in Procs :
          CancelSucceeds(p) =>
             LET o == oreq[p].order
                 customer == orders[o].customer
             IN IF orders[o].status \in {"CONFIRMED", "PROCESSING", "SHIPPED"}
                THEN /\ OneMoreRow(payments, payments',
                                   Payment(o, "REFUND", PaidSum(o), "COMPLETED"))
                     /\ balance' = [balance EXCEPT ![customer] = @ + PaidSum(o)]
                ELSE /\ orders[o].status = "PENDING"
                     /\ payments' = payments
                     /\ balance' = balance]_vars

(***************************************************************************)
(* C22, as the code has it: the REFUND record is written when PaidSum is   *)
(* greater than zero; when it is zero (an order that an operator confirmed *)
(* without a payment) no record is written and no balance changes.  An     *)
(* order paid once and then cancelled gives its customer the total back.   *)
(***************************************************************************)
C22_RefundExactPositive ==
    [][\A p \in Procs :
          CancelSucceeds(p) =>
             LET o == oreq[p].order
                 customer == orders[o].customer
             IN IF orders[o].status \in {"CONFIRMED", "PROCESSING", "SHIPPED"}
                   /\ PaidSum(o) > 0
                THEN /\ OneMoreRow(payments, payments',
                                   Payment(o, "REFUND", PaidSum(o), "COMPLETED"))
                     /\ balance' = [balance EXCEPT ![customer] = @ + PaidSum(o)]
                     /\ PaidSum(o) = orders[o].total_amount =>
                           balance'[customer] = balance[customer] + orders[o].total_amount
                ELSE /\ orders[o].status \in {"PENDING", "CONFIRMED", "PROCESSING", "SHIPPED"}
                     /\ payments' = payments
                     /\ balance' = balance]_vars

\* An order was paid and cancelled, both answered 200: the customer's balance
\* is back at its value before the payment.
C22_Witness ==
    /\ olast.op = "cancel"
    /\ olast.status = 200
    /\ \E o \in DOMAIN orders :
          /\ history[o] = <<[from_status |-> "", to_status |-> "PENDING"],
                            [from_status |-> "PENDING", to_status |-> "CONFIRMED"],
                            [from_status |-> "CONFIRMED", to_status |-> "CANCELLED"]>>
          /\ CopiesIn(Payment(o, "REFUND", orders[o].total_amount, "COMPLETED"),
                      payments) = 1
          /\ balance[orders[o].customer] = InitBalance[orders[o].customer]

(***************************************************************************)
(* C23: rejections have no side effects (SpecReject).  A request refused   *)
(* for authorization (ProcessPayment by someone other than the owner,      *)
(* CancelOrder by someone who is neither owner nor operator, UpdateStatus  *)
(* or SweepExpired by a non-operator) or for its input (a non-positive     *)
(* stock quantity or top-up amount, a missing order id) is answered with   *)
(* an error and never gets past the check, and the step that answers it    *)
(* leaves balances, stock, reservations, movements, orders, payments and   *)
(* history unchanged.                                                      *)
(***************************************************************************)
StoreUnchanged ==
    UNCHANGED <<balance, topups, topupLogs, stock, reservations, movements,
                orders, orderItems, payments, history>>

C23_RejectionsNoEffect ==
    [][/\ \A p \in Procs :
             LET r == oreq[p]
                 denied ==
                    /\ OrderExists(r.order)
                    /\ \/ r.pc = "pay_read" /\ orders[r.order].customer # r.user
                       \/ /\ r.pc = "cancel_read"
                          /\ orders[r.order].customer # r.user
                          /\ r.user \notin Staff
             IN (denied /\ oreq'[p] # r) =>
                   /\ oreq'[p].pc = "idle"
                   /\ olast'.status = 403
                   /\ StoreUnchanged
       /\ \A p \in Procs :
             /\ oreq'[p].op = "update" => oreq'[p].user \in Staff
             /\ oreq'[p].op \in {"pay", "cancel"} => oreq'[p].order # 0
             /\ ireq'[p].op = "sweep" => ireq'[p].user \in Staff
             /\ ireq'[p].op \in {"add", "reserve"} => ireq'[p].quantity > 0
             /\ ireq'[p].op \in {"reserve", "confirm", "release"} => ireq'[p].order # ""
             /\ (wreq'[p].pc = "respond" /\ wreq'[p].amount <= 0) =>
                   wreq'[p].status = 400 /\ StoreUnchanged
       /\ (olast' # olast /\ olast'.status \in {400, 403}) => StoreUnchanged
       /\ (ilast' # ilast /\ ilast'.status \in {400, 403}) => StoreUnchanged]_vars

\* With an order paid and a reservation expired, the last request to the
\* order service was a payment refused to someone who is not the owner, and
\* the last to the inventory a sweep refused to someone who is no operator.
C23_Witness ==
    /\ olast.op = "pay" /\ olast.status = 403
    /\ ilast.op = "sweep" /\ ilast.status = 403
    /\ \E o \in DOMAIN orders : orders[o].status = "CONFIRMED"
    /\ \E res \in reservations : Expired(now, res)
    /\ \E i \in DOMAIN wlog : wlog[i].status = 400 /\ wlog[i].ckey = CacheKey("POST", TopupPath, "k1")

(***************************************************************************)
(* C24: CreateOrder holds stock for every line (SpecOrderSeq).  A step     *)
(* that creates an order leaves an open reservation under the order's id   *)
(* and takes the quantities of its items off the stock; a CreateOrder that *)
(* is answered with an error leaves no order, item, history row,           *)
(* reservation or stock change.                                            *)
(***************************************************************************)
OrderRef(o) == IF o = 1 THEN "o1" ELSE "o2"     \* str(order.id)

TotalStock(s) == s["A"] + s["B"]

OrderedQty(items) == SumItems([i \in DOMAIN items |-> items[i].quantity])

C24_CreateOrderHoldsStock ==
    [][/\ Len(orders') = Len(orders) + 1 =>
             LET o == Len(orders')
             IN /\ \E res \in reservations' : res.order_id = OrderRef(o)
                /\ TotalStock(stock) - TotalStock(stock') = OrderedQty(orderItems'[o])
       /\ (olast' # olast /\ olast'.op = "create" /\ olast'.status >= 400) =>
             UNCHANGED <<orders, orderItems, history, reservations, stock>>]_vars

(***************************************************************************)
(* C25: payment confirms the reservations (SpecCheckout).  The step in     *)
(* which a ProcessPayment succeeds leaves no open reservation under the    *)
(* order's id and an OUT movement for each reservation the order had.      *)
(***************************************************************************)
C25_PaymentConfirmsReservations ==
    [][\A p \in Procs :
          ( /\ oreq[p].pc = "pay_write"
            /\ oreq'[p].pc = "idle"
            /\ olast'.status = 200 )
          => LET ref == OrderRef(oreq[p].order)
             IN /\ \A res \in reservations' : res.order_id # ref
                /\ \A res \in reservations :
                      res.order_id = ref =>
                         CopiesIn(Movement(res.product, "OUT", res.quantity, ref, res.id),
                                  movements') = 1]_vars

(***************************************************************************)
(* C26: no lost balance updates (SpecBalance).  Whatever the interleaving  *)
(* of top-ups with different keys, payments and refunds on one account,    *)
(* its balance is the initial balance plus the amounts of the TopUp rows   *)
(* and of the COMPLETED REFUND records, minus the amounts of the WALLET    *)
(* payment records (a WALLET record is in the store exactly when the debit *)
(* written with it is); and there is one TopUpLog row for each TopUp row.  *)
(***************************************************************************)
RECURSIVE SumTopups(_)
SumTopups(rows) ==
    IF rows = <<>> THEN 0 ELSE Head(rows).amount + SumTopups(Tail(rows))

C26_NoLostUpdate ==
    /\ balance[FirstUser] =
          InitBalance[FirstUser] + SumTopups(topups)
          + SumAmount({x \in BagToSet(payments) :
                          x.payment_type = "REFUND" /\ x.status = "COMPLETED"}, payments)
          - SumAmount({x \in BagToSet(payments) : x.payment_type = "WALLET"}, payments)
    /\ Len(topupLogs) = Len(topups)
    /\ \A u \in Users \ {FirstUser} : balance[u] = InitBalance[u]

\* Two top-ups with different keys both read the account before either
\* wrote it, and both have written: two TopUp rows, two log rows, and the
\* balance holds both amounts; a payment was made on the account meanwhile
\* or before.
C26_Witness ==
    /\ wreq["p1"].pc = "respond" /\ wreq["p1"].executed
    /\ wreq["p2"].pc = "respond" /\ wreq["p2"].executed
    /\ wreq["p1"].seen = wreq["p2"].seen
    /\ wreq["p1"].key # wreq["p2"].key
    /\ Len(topups) = 2 /\ Len(topupLogs) = 2
    /\ balance[FirstUser] = wreq["p1"].seen + wreq["p1"].amount + wreq["p2"].amount

(***************************************************************************)
(* C27: a top-up credits the caller (SpecWalletSeq).  The step in which    *)
(* topup_submit takes an amount a > 0 from an authenticated caller raises  *)
(* the caller's balance by a, writes one TopUp row owned by the caller and *)
(* one TopUpLog row, and leaves the balance of every other account as it   *)
(* was.                                                                    *)
(***************************************************************************)
C27_TopupCreditsCaller ==
    [][\A p \in Procs :
          ( /\ wreq[p].pc = "view"
            /\ wreq[p].amount > 0
            /\ wreq'[p] # wreq[p] )
          => LET c == wreq[p].caller
                 a == wreq[p].amount
             IN /\ wreq'[p].status = 200
                /\ balance' = [balance EXCEPT ![c] = @ + a]
                /\ topups' = Append(topups, [user |-> c, amount |-> a])
                /\ Len(topupLogs') = Len(topupLogs) + 1]_vars

(***************************************************************************)
(* C28: a reservation has exactly one RESERVED movement (SpecInvSeq).  In  *)
(* every state, for every open StockReservation the ledger holds exactly   *)
(* one RESERVED row whose reference id is the reservation's order_id.      *)
(***************************************************************************)
ReservedRows(order) ==
    CountRows({x \in BagToSet(movements) :
                  x.movement_type = "RESERVED" /\ x.reference_id = order},
              movements)

C28_OneReservedMovement ==
    \A res \in reservations : ReservedRows(res.order_id) = 1

(***************************************************************************)
(* C29: a failure in mid-operation rolls everything back (SpecInvSeq).     *)
(* When add-stock, Reserve, Confirm or Release has passed its checks and   *)
(* then answers with an error, stock, reservations and the movement ledger *)
(* are as they were before the request.                                    *)
(***************************************************************************)
C29_FailureRollsBack ==
    [][\A p \in Procs :
          ( /\ ireq[p].pc \in {"add_write", "reserve_write",
                               "confirm_write", "release_write"}
            /\ ireq'[p].pc = "idle"
            /\ ilast'.status >= 400 )
          => UNCHANGED <<stock, reservations, movements>>]_vars

(***************************************************************************)
(* C30: failures are not cached (SpecWalletSeq).  Every entry of the       *)
(* idempotency cache is the body of an answer with status 200 to a request *)
(* with that cache key: an answer with status 400 or above stores nothing. *)
(* So a request whose key has only been answered with errors so far is     *)
(* given to the view: when it is answered 200 it has run the top-up, and   *)
(* no answer is the replay of an error.                                    *)
(***************************************************************************)
C30_FailuresNotCached ==
    /\ \A ck \in DOMAIN cache :
          \E i \in DOMAIN wlog :
             /\ wlog[i].ckey = ck
             /\ wlog[i].status = 200
             /\ JsonDecode(wlog[i].body) = cache[ck].data
    /\ \A j \in DOMAIN wlog :
          ( /\ wlog[j].ckey # CacheKey("POST", TopupPath, "")
            /\ wlog[j].status = 200
            /\ \A i \in 1 .. j - 1 :
                  wlog[i].ckey = wlog[j].ckey => wlog[i].status >= 400 )
          => wlog[j].executed

\* A top-up was refused with status 400, and the next request with the same
\* key ran the view and was answered 200.
C30_Witness ==
    \E i, j \in DOMAIN wlog :
        /\ i < j
        /\ wlog[i].ckey = wlog[j].ckey
        /\ wlog[i].ckey # CacheKey("POST", TopupPath, "")
        /\ wlog[i].status = 400
        /\ wlog[j].status = 200
        /\ wlog[j].executed
        /\ wlog[j].delta > 0

(***************************************************************************)
(* C31: at most one open reservation per order (SpecInv).  In every state, *)
(* also while two Reserve requests for one order_id run side by side, no   *)
(* two StockReservation rows share an order_id; and a Reserve that has     *)
(* found its product in stock and whose order_id has an open reservation   *)
(* when it is decided is answered 400 "Order already has stock             *)
(* reservation", with stock, reservations and movements unchanged.         *)
(***************************************************************************)
OneOpenPerOrder(rs) ==
    \A r1 \in rs, r2 \in rs : r1.order_id = r2.order_id => r1 = r2

DuplicateRefused(p) ==
    /\ ireq[p].pc \in {"reserve_exists", "reserve_write"}
    /\ ResFor(ireq[p].order) # {}
    /\ ireq'[p].pc = "idle"

C31_OneOpenReservation ==
    [][/\ OneOpenPerOrder(reservations')
       /\ \A p \in Procs :
            DuplicateRefused(p) =>
                /\ ilast'.status = 400
                /\ ilast'.error = "Order already has stock reservation"
                /\ UNCHANGED <<stock, reservations, movements>>]_vars

(***************************************************************************)
(* C32: absent entities are reported as NotFound (SpecInvSeq).  A Reserve  *)
(* whose product id has no Product row, and a Confirm or Release whose     *)
(* order_id has no open reservation, are answered with the not-found       *)
(* status 404, never with the internal-failure status 500, and leave       *)
(* stock, reservations and movements unchanged.                            *)
(***************************************************************************)
NotFound == 404
InternalFailure == 500

EntityAbsent(p) ==
    \/ ireq[p].pc = "reserve_read" /\ ireq[p].product \notin Products
    \/ ireq[p].pc \in {"confirm_read", "release_read"} /\ ResFor(ireq[p].order) = {}

C32_AbsentIsNotFound ==
    [][\A p \in Procs :
          (EntityAbsent(p) /\ ireq'[p] # ireq[p]) =>
              /\ ireq'[p].pc = "idle"
              /\ ilast'.status = NotFound
              /\ ilast'.status # InternalFailure
              /\ UNCHANGED <<stock, reservations, movements>>]_vars

(***************************************************************************)
(* C33: the sweep isolates failures (SpecInvSeq).  When one SweepExpired   *)
(* run ends, at most one of the expired reservations it had read, the one  *)
(* whose processing failed, is still open: every other one was released    *)
(* in that run.                                                            *)
(***************************************************************************)
LeftOpen(p) == {res \in reservations' : res \in ireq[p].snap}

SweepEnds(p) == ireq[p].pc = "sweep_write" /\ ireq'[p].pc = "idle"

C33_SweepIsolatesFailures ==
    [][\A p \in Procs : SweepEnds(p) => Cardinality(LeftOpen(p)) <= 1]_vars

(***************************************************************************)
(* C34: CreateOrder is all-or-nothing (SpecOrderSeq).  A CreateOrder that  *)
(* is refused (no items, a blank address, a non-positive quantity at any   *)
(* position of the list, or a failure of a write) leaves the Order,        *)
(* OrderItem and OrderStatusHistory rows as they were; and whenever a row  *)
(* of one of these tables is added, the step is a successful CreateOrder   *)
(* that adds one order with all its items, each of positive quantity, and  *)
(* its one history row.                                                    *)
(***************************************************************************)
OrderTables == <<orders, orderItems, history>>

CreateRefused ==
    olast'.op = "create" /\ olast'.status # 200 /\ olast' # olast

RowAdded ==
    \/ Len(orders') # Len(orders)
    \/ Len(orderItems') # Len(orderItems)
    \/ Len(history') # Len(history)

RECURSIVE SumSubtotal(_)
SumSubtotal(items) ==
    IF items = <<>> THEN 0 ELSE Head(items).subtotal + SumSubtotal(Tail(items))

WholeOrderAdded ==
    LET o == Len(orders) + 1
    IN /\ olast'.op = "create" /\ olast'.status = 200
       /\ Len(orders') = o /\ Len(orderItems') = o /\ Len(history') = o
       /\ Len(orderItems'[o]) > 0
       /\ \A i \in DOMAIN orderItems'[o] : orderItems'[o][i].quantity > 0
       /\ orders'[o].total_amount = SumSubtotal(orderItems'[o])
       /\ Len(history'[o]) = 1

C34_CreateAllOrNothing ==
    [][/\ CreateRefused => UNCHANGED OrderTables
       /\ RowAdded => WholeOrderAdded]_vars

C34_Witness ==
    /\ olast.op = "create"
    /\ olast.error = "Invalid quantity"
    /\ Len(orders) = 0

(***************************************************************************)
(* C35: cache entries expire (SpecWalletSeq).  For every answered POST     *)
(* with a key: when an earlier request of the same method, path and key    *)
(* ran the view with status 200 and the latest such answer was stored less *)
(* than TTL before this request arrived, the request is replayed (the      *)
(* stored body, status 200, the view not run); otherwise, in particular    *)
(* once TTL has elapsed since that answer was stored, it is not replayed:  *)
(* the view runs, and a 200 answer of it is the entry from which the next  *)
(* TTL is counted.                                                         *)
(***************************************************************************)
Replayed(e) == e.status = 200 /\ ~e.executed

LastOf(idx) == CHOOSE i \in idx : \A j \in idx : j <= i

StoredBefore(j) == {i \in Executed200(wlog[j].ckey) : i < j}

C35_EntriesExpire ==
    \A j \in DOMAIN wlog :
        wlog[j].ckey # CacheKey("POST", TopupPath, "") =>
            IF /\ StoredBefore(j) # {}
               /\ wlog[j].tstart < wlog[LastOf(StoredBefore(j))].tdone + TTL
            THEN /\ Replayed(wlog[j])
                 /\ wlog[j].body = wlog[LastOf(StoredBefore(j))].body
                 /\ wlog[j].rows = 0 /\ wlog[j].delta = 0
            ELSE ~Replayed(wlog[j])

\* One key: the view ran, a request within the TTL was replayed, and a
\* request after the TTL ran the view again.
C35_Witness ==
    \E k \in Keys \ {""} :
        LET ck == CacheKey("POST", TopupPath, k)
        IN /\ Cardinality(LogOf(ck)) = 3
           /\ Cardinality(Executed200(ck)) = 2
           /\ \E j \in LogOf(ck) : Replayed(wlog[j])

(***************************************************************************)
(* Requests of every kind served by the worker threads, each thread one    *)
(* request at a time, with the storage faults.  The inventory tables and   *)
(* the account and order tables have no row in common, so a request of one *)
(* service never waits for a request of the other: a behaviour carries the *)
(* requests of one of the two services, interleaved step by step.  The     *)
(* scheduler runs every thread that can take a step (weak fairness); the   *)
(* database hands a row lock to a waiting transaction when the row is      *)
(* freed, so a step that waits for a row is not passed over for ever       *)
(* (strong fairness).                                                      *)
(***************************************************************************)
WorkerFree(p) ==
    wreq[p].pc = "idle" /\ oreq[p].pc = "idle" /\ ireq[p].pc = "idle"

InventoryAsLoaded == InvInit

AccountsAsLoaded ==
    /\ OrdInit
    /\ balance = InitBalance /\ topups = <<>> /\ topupLogs = <<>> /\ cache = <<>>
    /\ wlog = <<>> /\ wreq = [p \in Procs |-> IdleReq]

LiveSubmit(p) ==
    \/ /\ InventoryAsLoaded
       /\ Len(wlog) + Cardinality(InFlight) < MaxLiveTopups
       /\ WSubmit(p, 1, KeyOf(p), 10)
    \/ InventoryAsLoaded /\ PaySubmit(p, {1}, {1})
    \/ InventoryAsLoaded /\ CancelSubmit(p, {1}, {1})
    \/ AccountsAsLoaded /\ ReservationSubmit(p, {"A"}, {1}, {"o1"}, Staff)

WorkerStep(p) ==
    \/ TopupRead(p)
    \/ TopupWrite(p)
    \/ ProcessResponse(p)
    \/ PayStep(p)
    \/ CancelStep(p)
    \/ ReservationStep(p)

\* The steps that wait for the account row.
LockStep(p) ==
    \/ PayLock(p)
    \/ TopupWrite(p)
    \/ \E f \in Faults : CancelWrite(p, f)

NextLive ==
    \/ /\ InventoryAsLoaded /\ Len(orders) < MaxSeqOrders
       /\ CreateOrder(1, <<1>>, "addr", "none")
    \/ \E p \in Procs : WorkerFree(p) /\ LiveSubmit(p)
    \/ \E p \in Procs : WorkerStep(p)
    \/ AccountsAsLoaded /\ Tick

FairLive ==
    \A p \in Procs : WF_vars(WorkerStep(p)) /\ SF_vars(LockStep(p))

SpecLive == Init /\ [][NextLive]_vars /\ FairLive

CompletedCount(o, type) ==
    CountRows({x \in BagToSet(payments) :
                  x.order = o /\ x.payment_type = type /\ x.status = "COMPLETED"},
              payments)

C37_AtMostOnce ==
    \A o \in DOMAIN orders :
        /\ CompletedCount(o, "WALLET") <= 1
        /\ CompletedCount(o, "REFUND") <= 1

(***************************************************************************)
(* C38: an order is never refunded more than it was charged                *)
(* (SpecOrderSeq).  In every state reached by ProcessPayment, CancelOrder  *)
(* and UpdateStatus requests served one after the other, for every order   *)
(* the amounts of its COMPLETED REFUND records sum to at most the amounts   *)
(* of its COMPLETED WALLET records.                                        *)
(***************************************************************************)
RefundedSum(o) ==
    SumAmount({x \in BagToSet(payments) :
                  x.order = o /\ x.payment_type = "REFUND" /\ x.status = "COMPLETED"},
              payments)

C38_RefundAtMostCharged ==
    \A o \in DOMAIN orders : RefundedSum(o) <= PaidSum(o)

(***************************************************************************)
(* Top-ups, payments, cancellations and operator updates of one customer   *)
(* and one order, served one after the other, with the storage faults.     *)
(***************************************************************************)
NextMoney ==
    \/ NothingInFlight /\ Len(orders) < MaxSeqOrders
                       /\ CreateOrder(1, <<1>>, "addr", "none")
    \/ NothingInFlight /\ \E k \in Keys \ {""} : WSubmit("p1", 1, k, 10)
    \/ TopupSubmit("p1")
    \/ ProcessResponse("p1")
    \/ NothingInFlight /\ PaySubmit("p1", {1}, {1})
    \/ NothingInFlight /\ CancelSubmit("p1", {1}, {1})
    \/ NothingInFlight /\ UpdateSubmit("p1", Staff, {1}, {"PENDING", "CONFIRMED"})
    \/ PayStep("p1")
    \/ CancelStep("p1")
    \/ UpdateStep("p1")

SpecMoney == Init /\ [][NextMoney]_vars

(***************************************************************************)
(* C39: money is conserved (SpecMoney).  In every state in which all the   *)
(* top-up, ProcessPayment, CancelOrder and UpdateStatus requests sent so   *)
(* far are completed, the sum of all account balances equals the initial   *)
(* sum of balances, plus the sum of the TopUp amounts, minus the sum of    *)
(* the COMPLETED WALLET amounts, plus the sum of the COMPLETED REFUND       *)
(* amounts.                                                                *)
(***************************************************************************)
RECURSIVE SumBalances(_, _)
SumBalances(b, us) ==
    IF us = {} THEN 0
    ELSE LET u == CHOOSE v \in us : TRUE
         IN b[u] + SumBalances(b, us \ {u})

CompletedTotal(type) ==
    SumAmount({x \in BagToSet(payments) :
                  x.payment_type = type /\ x.status = "COMPLETED"}, payments)

C39_MoneyConserved ==
    NothingInFlight =>
        SumBalances(balance, Users) =
            SumBalances(InitBalance, Users) + SumTopups(topups)
                - CompletedTotal("WALLET") + CompletedTotal("REFUND")

(***************************************************************************)
(* C40: replays do not cross callers (SpecWalletSeq).  A request that is   *)
(* answered from the cache gets an answer that was stored for a request of *)
(* the same caller: the latest answer stored under its method, path and    *)
(* key before it arrived belongs to the caller of the replayed request.    *)
(***************************************************************************)
C40_NoCrossCallerReplay ==
    \A j \in DOMAIN wlog :
        (Replayed(wlog[j]) /\ StoredBefore(j) # {}) =>
            wlog[LastOf(StoredBefore(j))].caller = wlog[j].caller

====
